---- MODULE Spec2Model ----
(***************************************************************************)
(* deepagents command line console (src/deepagents/cli.py).                *)
(*                                                                         *)
(* The model follows one console session: simple_cli reads lines, routes   *)
(* them to handle_command, execute_bash_command or execute_task, and       *)
(* execute_task drives the agent's dual-mode stream, the human-in-the-loop *)
(* approval prompt and the resumption loop.  The agent, the keyboard and   *)
(* the line editor are the environment: their behaviour is drawn from      *)
(* small sets.                                                             *)
(***************************************************************************)
EXTENDS Integers, Sequences, FiniteSets, TLC

\* ------------------------------------------------------------------ bounds
\* stream chunks the agent delivers during one session
MaxEvents == 3
\* action requests carried by one interrupt
MaxReqs == 2
\* lines read by the console loop during one session
MaxLines == 2
\* keys pressed at one approval prompt
MaxKeys == 3
\* the largest token count passed to TokenTracker.add on its own
MaxTok == 2
\* calls of TokenTracker.add on its own
MaxAdds == 3
\* characters of a text scanned for file mentions
MaxTextLen == 4
\* calls of reset_agent on its own
MaxResets == 2
\* arguments of one tool call rendered on its own
MaxArgs == 2

\* ------------------------------------------------------- program constants
MAX_ARG_LENGTH == 150
\* the max_length the tool-call line passes to truncate_value
ToolArgDisplayLength == 50
\* display_last prints only from this many output tokens on
DisplayLastThreshold == 1000

\* --------------------------------------------------------------- utilities
None == <<>>
Some(x) == <<x>>

RECURSIVE JoinWith(_, _)
\* sep.join(parts)
JoinWith(parts, sep) ==
    IF parts = <<>> THEN ""
    ELSE IF Len(parts) = 1 THEN parts[1]
    ELSE parts[1] \o sep \o JoinWith(Tail(parts), sep)

Max(a, b) == IF a >= b THEN a ELSE b

\* ---------------------------------------------------------- truncate_value
truncate_value(value, max_length) ==
    IF Len(value) > max_length
    THEN SubSeq(value, 1, max_length) \o "..."
    ELSE value

\* ------------------------------------------- format_tool_message_content
\* content is [kind |-> "none"], [kind |-> "str", s |-> ...] or
\* [kind |-> "list", items |-> <<strings>>]
format_tool_message_content(content) ==
    IF content.kind = "none" THEN ""
    ELSE IF content.kind = "list" THEN JoinWith(content.items, "\n")
    ELSE content.s

\* ------------------------------------------------------------- tool_icons
KnownTools == {"read_file", "write_file", "edit_file", "ls", "glob", "grep",
               "shell", "web_search", "http_request", "task", "write_todos"}

tool_icons(tool_name) ==
    IF tool_name \in KnownTools THEN "<" \o tool_name \o ">" ELSE "<tool>"

\* ------------------------------------------------------------- json.loads
\* The argument fragments the agent streams, and what json.loads makes of
\* them: a mapping (its items in order), another JSON value, or a failure.
ArgsLs == "{\"command\":\"ls\"}"
ArgsPartial == "{\"comm"
ArgsList == "[1]"

RECURSIVE Repeat(_, _)
\* c * n
Repeat(c, n) == IF n = 0 THEN "" ELSE c \o Repeat(c, n - 1)

\* lengths of argument values around both display lengths of the program
ValueLengths == {0, 1, 49, 50, 51, 149, 150, 151}
ValueOfLen == [n \in ValueLengths |-> Repeat("v", n)]
ArgKeys == <<"command", "path", "pattern", "query">>

\* the items of a mapping whose k-th value has lens[k] characters
ArgItems(lens) ==
    [i \in 1..Len(lens) |-> [key |-> ArgKeys[i], val |-> ValueOfLen[lens[i]]]]

ArgMappings ==
    { ArgItems(lens) : lens \in UNION { [1..n -> ValueLengths] : n \in 1..MaxArgs } }

\* the JSON text of a mapping of strings, written as the agent streams it
json_dumps(items) ==
    "{" \o JoinWith([i \in 1..Len(items) |->
                        "\"" \o items[i].key \o "\":\"" \o items[i].val \o "\""],
                    ",")
        \o "}"

JsonTexts == { <<json_dumps(items), items>> : items \in ArgMappings }

json_loads(s) ==
    IF s = ArgsLs
    THEN [ok |-> TRUE, mapping |-> TRUE,
          items |-> <<[key |-> "command", val |-> "ls"]>>]
    ELSE IF s = ArgsList
    THEN [ok |-> TRUE, mapping |-> FALSE, items |-> <<>>]
    ELSE IF s = ArgsPartial
    THEN [ok |-> FALSE, mapping |-> FALSE, items |-> <<>>]
    ELSE LET hit == { p \in JsonTexts : p[1] = s } IN
         IF hit # {}
         THEN [ok |-> TRUE, mapping |-> TRUE, items |-> (CHOOSE p \in hit : TRUE)[2]]
         ELSE [ok |-> FALSE, mapping |-> FALSE, items |-> <<>>]

\* args_str of a tool-call chunk (the try/except around json.loads)
ArgsStr(tool_args) ==
    IF tool_args # ""
    THEN LET parsed == json_loads(tool_args) IN
         IF parsed.ok /\ parsed.mapping
         THEN JoinWith([i \in 1..Len(parsed.items) |->
                           parsed.items[i].key \o "="
                           \o truncate_value(parsed.items[i].val,
                                             ToolArgDisplayLength)],
                       ", ")
         ELSE tool_args
    ELSE tool_args

ToolCallLine(tool_name, tool_args) ==
    "  " \o tool_icons(tool_name) \o " " \o tool_name
         \o "(" \o ArgsStr(tool_args) \o ")"

\* ------------------------------------------------------- render_todo_list
TodoLine(todo) ==
    IF todo.status = "completed" THEN "[green]x " \o todo.content \o "[/green]"
    ELSE IF todo.status = "in_progress"
    THEN "[yellow]~ " \o todo.content \o "[/yellow]"
    ELSE "[dim]o " \o todo.content \o "[/dim]"

\* what render_todo_list prints: nothing for an empty list, else one panel
render_todo_list(todos) ==
    IF todos = <<>> THEN <<>>
    ELSE <<[k |-> "todos", lines |-> [i \in 1..Len(todos) |-> TodoLine(todos[i])]]>>

\* ------------------------------------------------------------ TokenTracker
TokenTrackerInit ==
    [session_input |-> 0, session_output |-> 0, last_input |-> 0, last_output |-> 0]

\* add with the session totals built on the last counts
TokenTracker_addOnLast(tt, input_tokens, output_tokens) ==
    [session_input |-> tt.last_input + input_tokens,
     session_output |-> tt.last_output + output_tokens,
     last_input |-> input_tokens,
     last_output |-> output_tokens]

\* add with the session totals overwritten
TokenTracker_addOverwrite(tt, input_tokens, output_tokens) ==
    [session_input |-> input_tokens,
     session_output |-> output_tokens,
     last_input |-> input_tokens,
     last_output |-> output_tokens]

TokenTracker_add(tt, input_tokens, output_tokens) ==
    [session_input |-> tt.session_input + input_tokens,
     session_output |-> tt.session_output + output_tokens,
     last_input |-> input_tokens,
     last_output |-> output_tokens]

\* what display_last prints
display_last(tt) ==
    IF tt.last_output # 0 /\ tt.last_output >= DisplayLastThreshold
    THEN <<[k |-> "tokens", n |-> tt.last_output]>>
    ELSE <<>>

\* what display_session prints
display_session(tt) ==
    <<[k |-> "session_tokens", input |-> tt.session_input,
       output |-> tt.session_output,
       total |-> tt.session_input + tt.session_output]>>

\* -------------------------------------------------- the stream's alphabet
Todos1 == <<[content |-> "plan", status |-> "in_progress"]>>
Todos2 == <<[content |-> "plan", status |-> "completed"]>>

TextBlock(t) == [type |-> "text", text |-> t]
ReasoningBlock(r) == [type |-> "reasoning", reasoning |-> r]
ToolCallChunk(name, args) == [type |-> "tool_call_chunk", name |-> name, args |-> args]
\* a content block that is not a mapping
BadBlock == [type |-> "not_mapping"]

Usage(i, o) == Some([input_tokens |-> i, output_tokens |-> o])

AIChunk(blocks, usage) ==
    [mode |-> "messages", shape |-> "ai", usage |-> usage, blocks |-> blocks]

ToolMessage(name, status, content) ==
    [mode |-> "messages", shape |-> "tool", name |-> name, status |-> status,
     content |-> content]

StrContent(s) == [kind |-> "str", s |-> s]

\* an updates chunk whose data holds "__interrupt__"
InterruptChunk(kind, n) ==
    [mode |-> "updates", shape |-> "interrupt", value |-> [kind |-> kind, n |-> n]]

StateChunk(todos) == [mode |-> "updates", shape |-> "state", todos |-> todos]

\* the chunks of unexpected shape
MalformedChunks ==
    { [mode |-> "none", shape |-> "not_3_tuple"],
      [mode |-> "updates", shape |-> "not_mapping"],
      InterruptChunk("not_mapping", 0),
      InterruptChunk("no_requests", 0),
      [mode |-> "messages", shape |-> "not_pair"],
      [mode |-> "messages", shape |-> "no_content_blocks"],
      AIChunk(<<BadBlock>>, None) }

InterruptChunks ==
    { InterruptChunk("requests", n) : n \in 0..MaxReqs } \cup { InterruptChunk("empty", 0) }

StateChunks ==
    { StateChunk(None), StateChunk(Some(<<>>)), StateChunk(Some(Todos1)),
      StateChunk(Some(Todos2)) }

ToolMessages ==
    { ToolMessage("shell", "error", StrContent("boom")),
      ToolMessage("shell", "error", [kind |-> "list", items |-> <<>>]),
      ToolMessage("shell", "success", StrContent("boom")),
      ToolMessage("web_search", "error", StrContent("boom")) }

AIChunks ==
    { AIChunk(<<b>>, None) :
        b \in { TextBlock("a"), ReasoningBlock("r"),
                ToolCallChunk("shell", ""), ToolCallChunk("", ArgsLs),
                ToolCallChunk("shell", ArgsLs), ToolCallChunk("grep", ArgsPartial) } }
    \cup { AIChunk(<<TextBlock(""), TextBlock("b")>>, None),
           AIChunk(<<TextBlock("a")>>, Usage(2, 1)),
           AIChunk(<<>>, Usage(1, 1000)) }

EventSet == MalformedChunks \cup InterruptChunks \cup StateChunks \cup ToolMessages \cup AIChunks

\* ------------------------------------------------- execute_task: one chunk
\* m holds the locals of execute_task that the chunk handlers touch, the
\* state of the status spinner (running) and the console output (out).
StopSpinner(m) ==
    IF m.spinner_active THEN [m EXCEPT !.running = FALSE, !.spinner_active = FALSE]
    ELSE m

Emit(m, items) == [m EXCEPT !.out = @ \o items]

TextItem(t) == [k |-> "text", text |-> t]
MarkerItem == [k |-> "marker"]
ToolCallItem(line) == [k |-> "tool_call", line |-> line]
ToolErrorItem(t) == [k |-> "tool_error", text |-> t]
NoticeItem(n) == [k |-> "notice", notice |-> n]

\* a text block that prints the marker in front of every text
HandleTextBlockMarksEach(m, block) ==
    IF block.text # ""
    THEN [Emit(StopSpinner(m), <<MarkerItem, TextItem(block.text)>>)
            EXCEPT !.has_responded = TRUE]
    ELSE m

\* a text block whose text is dropped once the agent has responded
HandleTextBlockOnlyFirst(m, block) ==
    IF block.text # "" /\ ~m.has_responded
    THEN [Emit(Emit(StopSpinner(m), <<MarkerItem>>), <<TextItem(block.text)>>)
            EXCEPT !.has_responded = TRUE]
    ELSE m

\* a text block
HandleTextBlock(m, block) ==
    IF block.text # ""
    THEN LET m1 == StopSpinner(m)
             m2 == IF ~m1.has_responded
                   THEN [Emit(m1, <<MarkerItem>>) EXCEPT !.has_responded = TRUE]
                   ELSE m1
         IN Emit(m2, <<TextItem(block.text)>>)
    ELSE m

\* a reasoning block
HandleReasoningBlock(m, block) ==
    IF block.reasoning # "" THEN StopSpinner(m) ELSE m

\* a tool_call_chunk block printed whether it has a name or not
HandleToolCallChunkAnyFragment(m, block) ==
    Emit(m, <<ToolCallItem(ToolCallLine(block.name, block.args))>>)

\* a tool_call_chunk block
HandleToolCallChunk(m, block) ==
    IF block.name # ""
    THEN LET m1 == IF m.spinner_active THEN [m EXCEPT !.running = FALSE] ELSE m
             m2 == Emit(m1, <<ToolCallItem(ToolCallLine(block.name, block.args))>>)
         IN IF m2.spinner_active THEN [m2 EXCEPT !.running = TRUE] ELSE m2
    ELSE m

RECURSIVE ProcessBlocks(_, _)
\* for block in message.content_blocks; block.get on a block that is not a
\* mapping raises
ProcessBlocks(m, blocks) ==
    IF blocks = <<>> THEN m
    ELSE LET block == Head(blocks) IN
         IF block.type = "not_mapping" THEN [m EXCEPT !.exc = TRUE]
         ELSE ProcessBlocks(
                CASE block.type = "text" -> HandleTextBlock(m, block)
                  [] block.type = "reasoning" -> HandleReasoningBlock(m, block)
                  [] block.type = "tool_call_chunk" -> HandleToolCallChunk(m, block)
                  [] OTHER -> m,
                Tail(blocks))

\* the usage_metadata of a message chunk, the counts added up
CaptureUsageSum(m, usage) ==
    IF usage # None
    THEN [m EXCEPT
            !.captured_input_tokens = @ + usage[1].input_tokens,
            !.captured_output_tokens = @ + usage[1].output_tokens]
    ELSE m

\* the usage_metadata of a message chunk
CaptureUsage(m, usage) ==
    IF usage # None
    THEN LET input_toks == usage[1].input_tokens
             output_toks == usage[1].output_tokens
         IN IF input_toks # 0 \/ output_toks # 0
            THEN [m EXCEPT
                    !.captured_input_tokens = Max(@, input_toks),
                    !.captured_output_tokens = Max(@, output_toks)]
            ELSE m
    ELSE m

\* a ToolMessage, the error shown whatever the tool
HandleToolMessageAnyTool(m, message) ==
    IF message.status # "success"
    THEN LET tool_content == format_tool_message_content(message.content) IN
         IF tool_content # ""
         THEN Emit(StopSpinner(m), <<ToolErrorItem(tool_content)>>)
         ELSE m
    ELSE m

\* a ToolMessage
HandleToolMessage(m, message) ==
    IF message.name = "shell" /\ message.status # "success"
    THEN LET tool_content == format_tool_message_content(message.content) IN
         IF tool_content # ""
         THEN Emit(StopSpinner(m), <<ToolErrorItem(tool_content)>>)
         ELSE m
    ELSE m

\* the messages branch
HandleMessages(m, data) ==
    IF data.shape = "not_pair" THEN m
    ELSE IF data.shape = "tool" THEN HandleToolMessage(m, data)
    ELSE IF data.shape = "no_content_blocks" THEN m
    ELSE ProcessBlocks(CaptureUsage(m, data.usage), data.blocks)

\* the todo check without the assignment to current_todos
HandleTodosNoTrack(m, data) ==
    IF data.shape = "state" /\ data.todos # None /\ data.todos # m.current_todos
    THEN Emit(StopSpinner(m), render_todo_list(data.todos[1]))
    ELSE m

\* the todo check of the updates branch
HandleTodos(m, data) ==
    IF data.shape = "state" /\ data.todos # None /\ data.todos # m.current_todos
    THEN Emit(StopSpinner([m EXCEPT !.current_todos = data.todos]),
              render_todo_list(data.todos[1]))
    ELSE m

\* TRUE when the updates chunk holds a truthy "__interrupt__"
IsInterrupt(data) ==
    data.mode = "updates" /\ data.shape = "interrupt" /\ data.value.kind # "empty"

\* len(hitl_request.get("action_requests", []))
RequestCount(data) == IF data.value.kind = "requests" THEN data.value.n ELSE 0

\* a for loop that goes on with the next chunk after an interrupt
HandleChunkNoBreak(m, chunk) ==
    IF chunk.mode = "updates"
    THEN IF chunk.shape = "not_mapping" THEN m
         ELSE IF IsInterrupt(chunk) THEN StopSpinner(m)
         ELSE HandleTodos(m, chunk)
    ELSE IF chunk.mode = "messages" THEN HandleMessages(m, chunk)
    ELSE m

\* one iteration of the for loop up to the approval prompts: the new m, with
\* exc set when the iteration raises and interrupted set when it reaches the
\* loop over the action requests
HandleChunk(m, chunk) ==
    IF chunk.mode = "updates"
    THEN IF chunk.shape = "not_mapping" THEN m
         ELSE IF IsInterrupt(chunk)
         THEN IF chunk.value.kind = "not_mapping"
              THEN [StopSpinner(m) EXCEPT !.exc = TRUE]
              ELSE [StopSpinner(m) EXCEPT !.interrupted = TRUE]
         ELSE HandleTodos(m, chunk)
    ELSE IF chunk.mode = "messages" THEN HandleMessages(m, chunk)
    ELSE m

\* -------------------------------------------------------- string helpers
UpperChars == "ABCDEFGHIJKLMNOPQRSTUVWXYZ"
LowerChars == "abcdefghijklmnopqrstuvwxyz"

CharAt(s, i) == SubSeq(s, i, i)

\* c.lower() of one character
LowerChar(c) ==
    IF \E i \in 1..26 : CharAt(UpperChars, i) = c
    THEN CharAt(LowerChars, CHOOSE i \in 1..26 : CharAt(UpperChars, i) = c)
    ELSE c

RECURSIVE str_lower(_)
str_lower(s) ==
    IF s = "" THEN "" ELSE LowerChar(CharAt(s, 1)) \o str_lower(SubSeq(s, 2, Len(s)))

RECURSIVE str_lstrip(_, _)
\* s.lstrip(chars), chars a set of characters
str_lstrip(s, chars) ==
    IF s # "" /\ CharAt(s, 1) \in chars
    THEN str_lstrip(SubSeq(s, 2, Len(s)), chars)
    ELSE s

RECURSIVE str_rstrip(_, _)
str_rstrip(s, chars) ==
    IF s # "" /\ CharAt(s, Len(s)) \in chars
    THEN str_rstrip(SubSeq(s, 1, Len(s) - 1), chars)
    ELSE s

Whitespace == {" ", "\t", "\n", "\r"}

str_strip(s) == str_rstrip(str_lstrip(s, Whitespace), Whitespace)

startswith(s, c) == Len(s) >= 1 /\ CharAt(s, 1) = c

\* ---------------------------------------------------- parse_file_mentions
\* char matches [^\s@], or \s behind a backslash, at position j of text
MentionChar(text, j) ==
    LET c == CharAt(text, j) IN
    \/ c \notin Whitespace /\ c # "@"
    \/ c \in Whitespace /\ j > 1 /\ CharAt(text, j - 1) = "\\"

RECURSIVE MatchEnd(_, _)
\* where the longest run of such characters from position j ends
MatchEnd(text, j) ==
    IF j <= Len(text) /\ MentionChar(text, j) THEN MatchEnd(text, j + 1) ELSE j

RECURSIVE findall(_, _)
\* re.findall(pattern, text) from position i on: the group of each match,
\* the matches found left to right without overlap
findall(text, i) ==
    IF i > Len(text) THEN <<>>
    ELSE IF CharAt(text, i) = "@" /\ MatchEnd(text, i + 1) > i + 1
    THEN <<SubSeq(text, i + 1, MatchEnd(text, i + 1) - 1)>>
         \o findall(text, MatchEnd(text, i + 1))
    ELSE findall(text, i + 1)

RECURSIVE str_replace(_, _, _)
\* s.replace(old, new)
str_replace(s, old, new) ==
    IF Len(s) < Len(old) THEN s
    ELSE IF SubSeq(s, 1, Len(old)) = old
    THEN new \o str_replace(SubSeq(s, Len(old) + 1, Len(s)), old, new)
    ELSE CharAt(s, 1) \o str_replace(SubSeq(s, 2, Len(s)), old, new)

\* clean_path of one match
clean_path(match) == str_replace(match, "\\ ", " ")

\* the mention tokens of a text: clean_path of every match, in order
MentionTokens(text) ==
    LET matches == findall(text, 1) IN
    [k \in 1..Len(matches) |-> clean_path(matches[k])]

\* What a path is found to be: a regular file read_text reads, a regular
\* file read_text raises on, a directory, nothing at all, a path resolve()
\* raises on and, for a path ~user, a user the system knows no home of.
PathKinds == {"file", "unreadable", "dir", "missing", "invalid"}

KindsOf(path) ==
    IF startswith(path, "~") /\ Len(path) > 1
    THEN PathKinds \cup {"nohome"}
    ELSE PathKinds

\* a file system without a path in it
NoFiles == <<>>

WarningItem(what, match) == [k |-> "warning", what |-> what, match |-> match]

RECURSIVE ResolveMatches(_, _, _)
\* the for loop over matches, r what it has appended and printed so far:
\* Path(clean_path).expanduser() is called outside the try and raises
\* RuntimeError for a ~user without a home; resolve() raises inside it
ResolveMatches(matches, fs, r) ==
    IF matches = <<>> THEN r
    ELSE LET match == Head(matches)
             path == clean_path(match)
         IN
         IF fs[path] = "nohome"
         THEN [r EXCEPT !.raised = TRUE]
         ELSE IF fs[path] \in {"file", "unreadable"}
         THEN ResolveMatches(Tail(matches), fs, [r EXCEPT !.files = Append(@, path)])
         ELSE IF fs[path] = "invalid"
         THEN ResolveMatches(Tail(matches), fs,
                  [r EXCEPT !.out = Append(@, WarningItem("Invalid path", match))])
         ELSE ResolveMatches(Tail(matches), fs,
                  [r EXCEPT !.out = Append(@, WarningItem("File not found", match))])

\* parse_file_mentions(text) in the file system fs: the text and the files
\* it returns and what it prints, or raised when an exception leaves it
parse_file_mentions(text, fs) ==
    ResolveMatches(findall(text, 1), fs,
                   [text |-> text, files |-> <<>>, out |-> <<>>, raised |-> FALSE])

\* file_path.read_text() of a readable file
read_text(path) == "text of " \o path

FileContentLimit == 50000

\* the part of context_parts for one mentioned file, the backquotes of the
\* source written as ' here
FileSection(path, fs) ==
    IF fs[path] = "unreadable"
    THEN "\n### " \o path \o "\n[Error reading file]"
    ELSE LET content == read_text(path)
             limited == IF Len(content) > FileContentLimit
                        THEN SubSeq(content, 1, FileContentLimit)
                                 \o "\n... (file truncated)"
                        ELSE content
         IN "\n### " \o path \o "\nPath: '" \o path \o "'\n'''\n" \o limited \o "\n'''"

\* a referenced-files section whether a file was mentioned or not
BuildInputAlwaysSection(prompt_text, mentioned_files, fs) ==
    JoinWith(<<prompt_text, "\n\n## Referenced Files\n">>
                 \o [k \in 1..Len(mentioned_files) |-> FileSection(mentioned_files[k], fs)],
             "\n")

\* final_input of execute_task from what parse_file_mentions returned
BuildInput(prompt_text, mentioned_files, fs) ==
    IF mentioned_files # <<>>
    THEN JoinWith(<<prompt_text, "\n\n## Referenced Files\n">>
                      \o [k \in 1..Len(mentioned_files) |->
                             FileSection(mentioned_files[k], fs)],
                  "\n")
    ELSE prompt_text

\* final_input of execute_task for user_input, no exception raised
FinalInput(user_input, fs) ==
    LET r == parse_file_mentions(user_input, fs) IN
    BuildInput(r.text, r.files, fs)

\* ------------------------------------------------------------- completers
COMMANDS == <<"clear", "help", "tokens", "quit", "exit">>

COMMON_BASH_COMMANDS ==
    <<"ls", "ls -la", "cd", "pwd", "cat", "grep", "find", "mkdir", "rm", "cp",
      "mv", "echo", "touch", "head", "tail", "wc", "chmod">>

Document(text, cursor_position) == [text |-> text, cursor_position |-> cursor_position]

text_before_cursor(document) == SubSeq(document.text, 1, document.cursor_position)

\* s.startswith(prefix)
IsPrefix(prefix, s) == Len(prefix) <= Len(s) /\ SubSeq(s, 1, Len(prefix)) = prefix

\* sub in s
IsSubstring(sub, s) ==
    \E i \in 1..(Len(s) - Len(sub) + 1) : SubSeq(s, i, i + Len(sub) - 1) = sub

RECURSIVE AfterLast(_, _)
\* s.split(c)[-1]
AfterLast(s, c) ==
    IF \E i \in 1..Len(s) : CharAt(s, i) = c
    THEN AfterLast(SubSeq(s, 2, Len(s)), c)
    ELSE s

\* a word completer that tells upper case from lower case
WordCompleterCaseSensitive(words, document) ==
    SelectSeq(words, LAMBDA w : IsPrefix(text_before_cursor(document), w))

\* WordCompleter(words, sentence=True, ignore_case=True).get_completions:
\* the words the text before the cursor, in lower case, is a prefix of
WordCompleter(words, document) ==
    SelectSeq(words, LAMBDA w :
        IsPrefix(str_lower(text_before_cursor(document)), str_lower(w)))

\* the document without its first character, the cursor moved with it
adjusted_doc(document) ==
    Document(SubSeq(document.text, 2, Len(document.text)),
             IF document.cursor_position > 0 THEN document.cursor_position - 1 ELSE 0)

\* CommandCompleter.get_completions
CommandCompleter(document) ==
    IF startswith(document.text, "/")
    THEN WordCompleter(COMMANDS, adjusted_doc(document))
    ELSE <<>>

\* BashCompleter.get_completions
BashCompleter(document) ==
    IF startswith(document.text, "!")
    THEN WordCompleter(COMMON_BASH_COMMANDS, adjusted_doc(document))
    ELSE <<>>

\* FilePathCompleter.get_completions, all_completions what PathCompleter
\* finds in the file system for the text behind the last @
FilePathCompleter(document, all_completions) ==
    LET text == text_before_cursor(document)
        after_at == AfterLast(text, "@")
        search_term == str_lower(AfterLast(after_at, "/"))
    IN
    IF IsSubstring("@", text)
    THEN IF str_strip(after_at) # ""
         THEN SelectSeq(all_completions, LAMBDA c : IsSubstring(search_term, str_lower(c)))
         ELSE all_completions
    ELSE <<>>

\* ------------------------------------------------------------ reset_agent
\* The agents directory ~/.deepagents: per agent name None when it has no
\* directory, or the files of its directory with their contents.
AgentNames == {"a", "b"}

AgentFiles == {"agent.md", "memories.md"}

FileContents == {"default instructions", "x"}

get_default_coding_instructions == "default instructions"

AgentDirs == {None} \cup {Some(files) : files \in UNION {[S -> FileContents] : S \in SUBSET AgentFiles}}

\* a reset that writes agent.md into the directory as it finds it
reset_agentKeepsFiles(dirs, agent_name, source_agent) ==
    LET source_md_exists ==
            /\ dirs[source_agent[1]] # None
            /\ "agent.md" \in DOMAIN dirs[source_agent[1]][1]
        source_content == IF source_agent # None
                          THEN dirs[source_agent[1]][1]["agent.md"]
                          ELSE get_default_coding_instructions
        files == IF dirs[agent_name] # None THEN dirs[agent_name][1] ELSE <<>>
    IN
    IF source_agent # None /\ ~source_md_exists
    THEN [dirs |-> dirs, out |-> <<[k |-> "error", source_agent |-> source_agent[1]]>>]
    ELSE [dirs |-> [dirs EXCEPT ![agent_name] =
                       Some([f \in DOMAIN files \cup {"agent.md"} |->
                                IF f = "agent.md" THEN source_content ELSE files[f]])],
          out |-> <<[k |-> "reset", agent_name |-> agent_name]>>]

\* reset_agent(agent_name, source_agent) on the agents directory dirs,
\* source_agent None without --target: the directory afterwards and what
\* is printed
reset_agent(dirs, agent_name, source_agent) ==
    LET source_md_exists ==
            /\ dirs[source_agent[1]] # None
            /\ "agent.md" \in DOMAIN dirs[source_agent[1]][1]
        source_content == IF source_agent # None
                          THEN dirs[source_agent[1]][1]["agent.md"]
                          ELSE get_default_coding_instructions
        removed == IF dirs[agent_name] # None
                   THEN <<[k |-> "removed", agent_name |-> agent_name]>>
                   ELSE <<>>
    IN
    IF source_agent # None /\ ~source_md_exists
    THEN [dirs |-> dirs, out |-> <<[k |-> "error", source_agent |-> source_agent[1]]>>]
    ELSE [dirs |-> [dirs EXCEPT ![agent_name] =
                       Some([f \in {"agent.md"} |-> source_content])],
          out |-> removed \o <<[k |-> "reset", agent_name |-> agent_name]>>]

\* ---------------------------------------------- prompt_for_shell_approval
\* The keys of the keyboard and the characters sys.stdin.read(1) delivers
\* for each in raw mode: ESC is \x1b, CR is \r, ETX is \x03 (Ctrl+C); an
\* arrow is ESC [ and a letter, esc is the Escape key, x a key without a
\* function.
ArrowKeys == {"right", "left", "up", "down"}
ConfirmKeys == {"enter", "a", "A", "r", "R"}
OtherKeys == {"esc", "x"}
Keys == ArrowKeys \cup ConfirmKeys \cup OtherKeys \cup {"ctrl_c"}

KeyBytes(key) ==
    CASE key = "right" -> <<"ESC", "[", "C">>
      [] key = "left" -> <<"ESC", "[", "D">>
      [] key = "down" -> <<"ESC", "[", "B">>
      [] key = "up" -> <<"ESC", "[", "A">>
      [] key = "enter" -> <<"CR">>
      [] key = "ctrl_c" -> <<"ETX">>
      [] key = "esc" -> <<"ESC">>
      [] OTHER -> <<key>>

RECURSIVE BytesOf(_)
\* the characters a sequence of keys sends
BytesOf(keys) == IF keys = <<>> THEN <<>> ELSE KeyBytes(Head(keys)) \o BytesOf(Tail(keys))

ApproveDecision == [type |-> "approve"]
RejectDecision == [type |-> "reject", message |-> "User rejected the command"]

\* the selection after ESC [ next2
KeySelect(selected, next2) ==
    IF next2 \in {"C", "B"} THEN (selected + 1) % 2
    ELSE IF next2 \in {"D", "A"} THEN (selected - 1) % 2
    ELSE selected

\* the menu as the while True loop enters it: approve selected, no
\* character of an escape sequence read
MenuStart == [selected |-> 0, pending |-> <<>>, ended |-> "no"]

\* one sys.stdin.read(1) of the loop: char when pending is empty, next1
\* after ESC, next2 after that
ReadChar(st, char) ==
    IF Len(st.pending) = 1 THEN [st EXCEPT !.pending = Append(@, char)]
    ELSE IF Len(st.pending) = 2
    THEN [st EXCEPT !.pending = <<>>,
                    !.selected = IF st.pending[2] = "[" THEN KeySelect(@, char) ELSE @]
    ELSE IF char = "ESC" THEN [st EXCEPT !.pending = <<"ESC">>]
    ELSE IF char = "CR" \/ char = "LF" THEN [st EXCEPT !.ended = "break"]
    ELSE IF char = "ETX" THEN [st EXCEPT !.ended = "interrupt"]
    ELSE IF LowerChar(char) = "a" THEN [st EXCEPT !.selected = 0, !.ended = "break"]
    ELSE IF LowerChar(char) = "r" THEN [st EXCEPT !.selected = 1, !.ended = "break"]
    ELSE st

RECURSIVE MenuLoop(_, _)
\* the while True loop of the raw-mode menu over the characters typed, up
\* to its break or KeyboardInterrupt
MenuLoop(st, chars) ==
    IF chars = <<>> \/ st.ended # "no" THEN st
    ELSE MenuLoop(ReadChar(st, Head(chars)), Tail(chars))

\* the line-based fallback when the terminal has no raw mode
FallbackSelect(line) ==
    LET choice == str_lower(str_strip(line)) IN
    IF choice = "r" \/ choice = "reject" THEN 1 ELSE 0

\* the decision returned for a selection
DecisionFor(selected) == IF selected = 0 THEN ApproveDecision ELSE RejectDecision

\* prompt_for_shell_approval on what the user types: the decision, or
\* interrupt when Ctrl+C ends it
prompt_for_shell_approval(input) ==
    IF input.mode = "raw"
    THEN LET r == MenuLoop(MenuStart, BytesOf(input.keys)) IN
         [interrupt |-> r.ended = "interrupt", decision |-> DecisionFor(r.selected)]
    ELSE [interrupt |-> FALSE, decision |-> DecisionFor(FallbackSelect(input.line))]

\* key sequences that end the menu with their last key and not before
KeySeqsOfLen(n) ==
    { ks \in [1..n -> Keys] :
        /\ MenuLoop(MenuStart, BytesOf(ks)).ended # "no"
        /\ MenuLoop(MenuStart, BytesOf(SubSeq(ks, 1, n - 1))).ended = "no" }

KeySeqs == UNION { KeySeqsOfLen(n) : n \in 1..MaxKeys }

FallbackLines == {"", "a", " R ", "reject", "no"}

PromptInputs ==
    { [mode |-> "raw", keys |-> ks] : ks \in KeySeqs }
    \cup { [mode |-> "line", line |-> l] : l \in FallbackLines }

\* what the prompter can hand back to execute_task
PromptOutcomes == { prompt_for_shell_approval(input) : input \in PromptInputs }

\* ------------------------------------------------------------------ state
VARIABLES
    cli,                    \* simple_cli: "prompt", "task", "exited", "crashed"
    tracker,                \* the session's TokenTracker
    adds,                   \* the arguments of the calls of tracker.add so far
    checkpointer,           \* turns held by agent.checkpointer
    console,                \* what the current operation printed so far
    pc,                     \* execute_task: "idle", "streaming", "prompting", "invoking"
    exit,                   \* how the last execute_task was left
    has_responded,
    captured_input_tokens,
    captured_output_tokens,
    current_todos,
    spinner_active,
    running,                \* whether the status spinner is started
    stream_input,
    hitl_response,
    pending,                \* action requests not yet prompted for
    decisions,
    agent_calls,            \* calls of agent.stream / agent.invoke of the turn
    nLines,                 \* lines read so far
    nEvents,                \* chunks delivered so far
    lastEvent,              \* the chunk the running traversal read last
    textIn,                 \* non-empty text fragments delivered in this turn
    frags,                  \* tool-call fragments delivered in this turn
    interrupts,             \* interrupts handled in this turn
    resumed,                \* how agent.invoke ended on the rejection path
    shown,                  \* items printed when the last interrupt was read
    usageIn,                \* usage reports delivered in this turn
    requests,               \* action requests of the interrupt handled last
    promptLog,              \* prompts of the interrupt handled last
    prompter,               \* prompt_for_shell_approval run on its own
    mention,                \* parse_file_mentions run on its own
    completer,              \* the completer of the prompt session on its own
    home,                   \* ~/.deepagents and reset_agent run on it
    render                  \* the tool-call line rendered on its own

taskVars == <<has_responded, captured_input_tokens, captured_output_tokens,
              current_todos, spinner_active, running, console>>
hitlVars == <<stream_input, hitl_response, pending, decisions, requests, promptLog>>
ghostVars == <<lastEvent, textIn, frags, interrupts, resumed, shown, usageIn>>
\* the console session
sessionVars == <<cli, tracker, adds, checkpointer, pc, exit, taskVars, hitlVars,
                 agent_calls, nLines, nEvents, ghostVars>>
vars == <<sessionVars, prompter, mention, completer, home, render>>

NoEvent == [mode |-> "none", shape |-> "nothing"]

\* the locals of execute_task as the chunk handlers see them
M ==
    [has_responded |-> has_responded,
     captured_input_tokens |-> captured_input_tokens,
     captured_output_tokens |-> captured_output_tokens,
     current_todos |-> current_todos,
     spinner_active |-> spinner_active,
     running |-> running,
     out |-> console,
     exc |-> FALSE,
     interrupted |-> FALSE]

SetM(m) ==
    /\ has_responded' = m.has_responded
    /\ captured_input_tokens' = m.captured_input_tokens
    /\ captured_output_tokens' = m.captured_output_tokens
    /\ current_todos' = m.current_todos
    /\ spinner_active' = m.spinner_active
    /\ running' = m.running
    /\ console' = m.out

\* the terminal settings termios.tcgetattr can find on entry
TermSettings == {"cooked", "cooked_noecho"}

\* prompt_for_shell_approval not yet called, the terminal as t says
PrompterIdle(t) ==
    [pc |-> "idle", selected |-> 0, pending |-> <<>>, term |-> t, entered |-> t,
     old_settings |-> None, keys |-> <<>>, decision |-> None]

SessionInit ==
    /\ cli = "prompt"
    /\ tracker = TokenTrackerInit
    /\ adds = <<>>
    /\ checkpointer = 0
    /\ console = <<>>
    /\ pc = "idle"
    /\ exit = "none"
    /\ has_responded = FALSE
    /\ captured_input_tokens = 0
    /\ captured_output_tokens = 0
    /\ current_todos = None
    /\ spinner_active = FALSE
    /\ running = FALSE
    /\ stream_input = [kind |-> "none"]
    /\ hitl_response = None
    /\ pending = <<>>
    /\ decisions = <<>>
    /\ agent_calls = <<>>
    /\ nLines = 0
    /\ nEvents = 0
    /\ lastEvent = NoEvent
    /\ textIn = <<>>
    /\ frags = <<>>
    /\ interrupts = 0
    /\ resumed = "none"
    /\ shown = 0
    /\ usageIn = {}
    /\ requests = <<>>
    /\ promptLog = <<>>

\* parse_file_mentions not yet called on text, the file system being fs
MentionIdle(text, fs) ==
    [pc |-> "idle", text |-> text, fs |-> fs, tokens |-> <<>>, files |-> <<>>,
     out |-> <<>>, prompt_text |-> None, stream_input |-> [kind |-> "none"]]

\* no completion asked for yet in document
CompleterIdle(document) ==
    [pc |-> "idle", document |-> document, command |-> <<>>, bash |-> <<>>,
     file |-> <<>>, merged |-> <<>>]

\* the agents directory without an agent in it
NoAgents == [name \in AgentNames |-> None]

\* reset_agent not yet called on the agents directory dirs
HomeIdle(dirs) == [dirs |-> dirs, calls |-> 0, last |-> None, out |-> <<>>]

RenderIdle(tool_name, tool_args) ==
    [pc |-> "idle", tool_name |-> tool_name, tool_args |-> tool_args, line |-> ""]

Init ==
    /\ SessionInit
    /\ prompter = PrompterIdle("cooked")
    /\ mention = MentionIdle("", NoFiles)
    /\ completer = CompleterIdle(Document("", 0))
    /\ home = HomeIdle(NoAgents)
    /\ render = RenderIdle("", "")

\* ----------------------------------------------------- agent boundary calls
MessagesPayload(content) ==
    [kind |-> "messages", messages |-> <<[role |-> "user", content |-> content]>>]

\* a resumption that leaves the decisions behind
ResumePayloadNoDecisions(response) == [kind |-> "resume", resume |-> [decisions |-> <<>>]]

\* Command(resume=hitl_response)
ResumePayload(response) == [kind |-> "resume", resume |-> response]

StreamCall(input) == [op |-> "stream", input |-> input]
InvokeCall(input) == [op |-> "invoke", input |-> input]

\* --------------------------------------------------- execute_task: leaving
\* the except KeyboardInterrupt clause without status.stop()
OnKeyboardInterruptNoStop(m) == Emit(m, <<NoticeItem("Interrupted by user")>>)

\* the except KeyboardInterrupt clause
OnKeyboardInterrupt(m) ==
    Emit(IF m.spinner_active THEN [m EXCEPT !.running = FALSE] ELSE m,
         <<NoticeItem("Interrupted by user")>>)

\* the statements after the try block without the test of has_responded
EpilogueAnyTurn(m, tt) ==
    LET m1 == IF m.spinner_active THEN [m EXCEPT !.running = FALSE] ELSE m
        counted == m1.captured_input_tokens # 0 \/ m1.captured_output_tokens # 0
        tt1 == IF counted
               THEN TokenTracker_add(tt, m1.captured_input_tokens,
                                     m1.captured_output_tokens)
               ELSE tt
    IN [m |-> IF counted THEN Emit(m1, display_last(tt1)) ELSE m1,
        tracker |-> tt1,
        added |-> IF counted
                  THEN <<<<m1.captured_input_tokens, m1.captured_output_tokens>>>>
                  ELSE <<>>]

\* the statements after the try block: the spinner is stopped and the
\* captured usage goes to the tracker when the agent has responded
Epilogue(m, tt) ==
    LET m1 == IF m.spinner_active THEN [m EXCEPT !.running = FALSE] ELSE m
        counted == m1.has_responded
                   /\ (m1.captured_input_tokens # 0 \/ m1.captured_output_tokens # 0)
        tt1 == IF counted
               THEN TokenTracker_add(tt, m1.captured_input_tokens,
                                     m1.captured_output_tokens)
               ELSE tt
    IN [m |-> IF counted THEN Emit(m1, display_last(tt1)) ELSE m1,
        tracker |-> tt1,
        added |-> IF counted
                  THEN <<<<m1.captured_input_tokens, m1.captured_output_tokens>>>>
                  ELSE <<>>]

\* an exception other than KeyboardInterrupt leaves execute_task and
\* simple_cli, which catch none, and ends in main's except clause
Propagate(m) ==
    /\ SetM(m)
    /\ pc' = "idle"
    /\ exit' = "raised"
    /\ cli' = "crashed"

\* execute_task returns to the console loop
Return(m, how) ==
    /\ SetM(m)
    /\ pc' = "idle"
    /\ exit' = how
    /\ cli' = "prompt"

\* leaving execute_task the way `how` says
Leave(m, how) == IF how = "raised" THEN Propagate(m) ELSE Return(m, how)

\* ------------------------------------------- execute_task: the interrupt
\* suppress_resumed_output computed with all() in place of any()
SuppressOnlyIfAllReject(ds) ==
    ds # <<>> /\ \A i \in 1..Len(ds) : ds[i].type = "reject"

\* suppress_resumed_output
SuppressResumedOutput(ds) == \E i \in 1..Len(ds) : ds[i].type = "reject"

\* the loop over the action requests stopping at the first reject
ApprovalStepShortCircuit(todo, ds, decision) ==
    [pending |-> IF decision.type = "reject" THEN <<>> ELSE Tail(todo),
     decisions |-> Append(ds, decision)]

\* one iteration of the loop over the action requests, given the decision
\* the prompter returned: what is left to prompt for and the decisions
ApprovalStep(todo, ds, decision) ==
    [pending |-> Tail(todo), decisions |-> Append(ds, decision)]

\* the code after the for loop handing only the reject decisions to the
\* rejection path
PostLoopRejectsOnly(ds, cur_stream_input) ==
    LET response == [decisions |-> ds]
        rejects == [decisions |-> SelectSeq(ds, LAMBDA d : d.type = "reject")]
    IN
    IF SuppressResumedOutput(ds)
    THEN [pc |-> "invoking",
          call |-> InvokeCall(ResumePayload(rejects)),
          stream_input |-> cur_stream_input,
          hitl_response |-> Some(rejects)]
    ELSE [pc |-> "streaming",
          call |-> StreamCall(ResumePayload(response)),
          stream_input |-> ResumePayload(response),
          hitl_response |-> None]

\* the code after the for loop without the assignment to stream_input
PostLoopKeepsInput(ds, cur_stream_input) ==
    LET response == [decisions |-> ds] IN
    IF SuppressResumedOutput(ds)
    THEN [pc |-> "invoking",
          call |-> InvokeCall(ResumePayload(response)),
          stream_input |-> cur_stream_input,
          hitl_response |-> Some(response)]
    ELSE [pc |-> "streaming",
          call |-> StreamCall(cur_stream_input),
          stream_input |-> cur_stream_input,
          hitl_response |-> None]

\* what follows the for loop once an interrupt has set hitl_response: the
\* rejection path invokes the agent once, otherwise the while loop streams
\* again with the resumption payload
PostLoop(ds, cur_stream_input) ==
    LET response == [decisions |-> ds] IN
    IF SuppressResumedOutput(ds)
    THEN [pc |-> "invoking",
          call |-> InvokeCall(ResumePayload(response)),
          stream_input |-> cur_stream_input,
          hitl_response |-> Some(response)]
    ELSE [pc |-> "streaming",
          call |-> StreamCall(ResumePayload(response)),
          stream_input |-> ResumePayload(response),
          hitl_response |-> None]

\* the decisions ds are complete: break, then the code after the for loop
Collected(m, ds) ==
    LET nxt == PostLoop(ds, stream_input) IN
    /\ SetM(IF nxt.pc = "invoking" THEN StopSpinner(m) ELSE m)
    /\ decisions' = ds
    /\ pending' = <<>>
    /\ hitl_response' = nxt.hitl_response
    /\ stream_input' = nxt.stream_input
    /\ agent_calls' = Append(agent_calls, nxt.call)
    /\ pc' = nxt.pc
    /\ UNCHANGED <<exit, cli>>

\* the rejection path without the except Exception clause
ResumeAfterRejectionNoCatch(m, outcome) ==
    LET rejected == NoticeItem("Command rejected. Returning to prompt.") IN
    IF outcome = "ok"
    THEN [m |-> Emit(m, <<rejected>>), exit |-> "rejected"]
    ELSE IF outcome = "error"
    THEN [m |-> Emit(m, <<rejected>>), exit |-> "raised"]
    ELSE [m |-> OnKeyboardInterrupt(Emit(m, <<rejected>>)), exit |-> "interrupted"]

\* the rejection path with a bare except clause, which takes the abort too
ResumeAfterRejectionCatchAll(m, outcome) ==
    LET rejected == NoticeItem("Command rejected. Returning to prompt.") IN
    IF outcome = "ok"
    THEN [m |-> Emit(m, <<rejected>>), exit |-> "rejected"]
    ELSE [m |-> Emit(m, <<NoticeItem("Error resuming after rejection"), rejected>>),
          exit |-> "rejected"]

\* the try/except/finally around agent.invoke on the rejection path, and
\* the outer except KeyboardInterrupt when the call is aborted
ResumeAfterRejection(m, outcome) ==
    LET rejected == NoticeItem("Command rejected. Returning to prompt.") IN
    IF outcome = "ok"
    THEN [m |-> Emit(m, <<rejected>>), exit |-> "rejected"]
    ELSE IF outcome = "error"
    THEN [m |-> Emit(m, <<NoticeItem("Error resuming after rejection"), rejected>>),
          exit |-> "rejected"]
    ELSE [m |-> OnKeyboardInterrupt(Emit(m, <<rejected>>)), exit |-> "interrupted"]

\* ------------------------------------------------ what a chunk delivers
RECURSIVE TextsOfBlocks(_)
TextsOfBlocks(blocks) ==
    IF blocks = <<>> THEN <<>>
    ELSE (IF Head(blocks).type = "text" /\ Head(blocks).text # ""
          THEN <<Head(blocks).text>> ELSE <<>>) \o TextsOfBlocks(Tail(blocks))

RECURSIVE FragsOfBlocks(_)
FragsOfBlocks(blocks) ==
    IF blocks = <<>> THEN <<>>
    ELSE (IF Head(blocks).type = "tool_call_chunk"
          THEN <<Head(blocks)>> ELSE <<>>) \o FragsOfBlocks(Tail(blocks))

IsAIChunk(chunk) == chunk.mode = "messages" /\ chunk.shape = "ai"
TextsOf(chunk) == IF IsAIChunk(chunk) THEN TextsOfBlocks(chunk.blocks) ELSE <<>>
FragsOf(chunk) == IF IsAIChunk(chunk) THEN FragsOfBlocks(chunk.blocks) ELSE <<>>
UsageOf(chunk) ==
    IF IsAIChunk(chunk) /\ chunk.usage # None THEN {chunk.usage[1]} ELSE {}

\* ------------------------------------------------------------ the actions
\* for chunk in agent.stream(...): the agent delivers one chunk
StreamChunk ==
    /\ pc = "streaming"
    /\ nEvents < MaxEvents
    /\ \E chunk \in EventSet :
         LET m == HandleChunk(M, chunk) IN
         /\ nEvents' = nEvents + 1
         /\ lastEvent' = chunk
         /\ textIn' = textIn \o TextsOf(chunk)
         /\ frags' = frags \o FragsOf(chunk)
         /\ usageIn' = usageIn \cup UsageOf(chunk)
         /\ IF m.exc
            THEN /\ Propagate(m)
                 /\ UNCHANGED <<hitlVars, agent_calls, interrupts, shown>>
            ELSE IF m.interrupted
            THEN /\ interrupts' = interrupts + 1
                 /\ shown' = Len(m.out)
                 /\ requests' = [i \in 1..RequestCount(chunk) |-> i]
                 /\ promptLog' = <<>>
                 /\ IF RequestCount(chunk) = 0
                    THEN Collected(m, <<>>)
                    ELSE /\ SetM(m)
                         /\ pending' = requests'
                         /\ decisions' = <<>>
                         /\ pc' = "prompting"
                         /\ UNCHANGED <<stream_input, hitl_response, agent_calls,
                                        exit, cli>>
            ELSE /\ SetM(m)
                 /\ UNCHANGED <<hitlVars, agent_calls, interrupts, shown, pc, exit,
                                cli>>
    /\ UNCHANGED <<prompter, mention, completer, home, render, tracker, adds, checkpointer, nLines, resumed>>

\* the stream is exhausted without an interrupt: break, then the epilogue
StreamEnd ==
    /\ pc = "streaming"
    /\ LET r == Epilogue(M, tracker) IN
       /\ Return(r.m, "completed")
       /\ tracker' = r.tracker
       /\ adds' = adds \o r.added
    /\ lastEvent' = NoEvent
    /\ UNCHANGED <<prompter, mention, completer, home, render, checkpointer, hitlVars, agent_calls, nLines, nEvents,
                   textIn, frags, interrupts, resumed, shown, usageIn>>

\* the agent's stream raises an exception
StreamError ==
    /\ pc = "streaming"
    /\ Propagate(M)
    /\ lastEvent' = NoEvent
    /\ UNCHANGED <<prompter, mention, completer, home, render, tracker, adds, checkpointer, hitlVars, agent_calls, nLines, nEvents,
                   textIn, frags, interrupts, resumed, shown, usageIn>>

\* the except KeyboardInterrupt clause without its return: the abort falls
\* through to the statements after the try block
StreamAbortCounts ==
    /\ pc = "streaming"
    /\ LET r == Epilogue(OnKeyboardInterrupt(M), tracker) IN
       /\ Return(r.m, "interrupted")
       /\ tracker' = r.tracker
       /\ adds' = adds \o r.added
    /\ lastEvent' = NoEvent
    /\ UNCHANGED <<prompter, mention, completer, home, render, checkpointer, hitlVars, agent_calls, nLines, nEvents,
                   textIn, frags, interrupts, resumed, shown, usageIn>>

\* Ctrl+C while the engine waits for the next chunk
StreamAbort ==
    /\ pc = "streaming"
    /\ Return(OnKeyboardInterrupt(M), "interrupted")
    /\ lastEvent' = NoEvent
    /\ UNCHANGED <<prompter, mention, completer, home, render, tracker, adds, checkpointer, hitlVars, agent_calls, nLines, nEvents,
                   textIn, frags, interrupts, resumed, shown, usageIn>>

\* the user answers the approval prompt of the next action request
Prompt ==
    /\ pc = "prompting"
    /\ \E r \in PromptOutcomes :
         /\ promptLog' = Append(promptLog, [request |-> Head(pending),
                                            interrupt |-> r.interrupt,
                                            decision |-> r.decision])
         /\ IF r.interrupt
            THEN /\ Return(OnKeyboardInterrupt(M), "interrupted")
                 /\ lastEvent' = NoEvent
                 /\ UNCHANGED <<stream_input, hitl_response, pending, decisions,
                                agent_calls>>
            ELSE LET step == ApprovalStep(pending, decisions, r.decision) IN
                 /\ UNCHANGED lastEvent
                 /\ IF step.pending = <<>>
                    THEN Collected(M, step.decisions)
                    ELSE /\ SetM(M)
                         /\ pending' = step.pending
                         /\ decisions' = step.decisions
                         /\ UNCHANGED <<stream_input, hitl_response, agent_calls, pc,
                                        exit, cli>>
    /\ UNCHANGED <<prompter, mention, completer, home, render, tracker, adds, checkpointer, requests, nLines, nEvents,
                   textIn, frags, interrupts, resumed, shown, usageIn>>

\* agent.invoke(Command(resume=...)) returns, raises, or is aborted
InvokeEnds(outcome) ==
    /\ pc = "invoking"
    /\ LET r == ResumeAfterRejection(M, outcome) IN Leave(r.m, r.exit)
    /\ resumed' = outcome
    /\ lastEvent' = NoEvent
    /\ UNCHANGED <<prompter, mention, completer, home, render, tracker, adds, checkpointer, hitlVars, agent_calls, nLines, nEvents,
                   textIn, frags, interrupts, shown, usageIn>>

InvokeReturn == InvokeEnds("ok")
InvokeError == InvokeEnds("error")
InvokeAbort == InvokeEnds("interrupt")

\* ----------------------------------------------------------- console loop
\* what the line editor may return
Lines == {"", " ", "/help", "/clear", "/Tokens", "/quit", "/nope", "!ls", "!",
          "quit", "Q", "hello"}

QuitWords == {"quit", "exit", "q"}

\* cmd of handle_command
CommandName(command) == str_lstrip(str_strip(str_lower(command)), {"/"})

\* handle_command whose clear branch redraws the screen only
handle_commandClearKeeps(cmd, tt) ==
    IF cmd \in QuitWords
    THEN [result |-> "exit", out |-> <<>>, reset |-> FALSE]
    ELSE IF cmd = "clear"
    THEN [result |-> "handled", out |-> <<[k |-> "banner"]>>, reset |-> FALSE]
    ELSE IF cmd = "help"
    THEN [result |-> "handled", out |-> <<[k |-> "help"]>>, reset |-> FALSE]
    ELSE IF cmd = "tokens"
    THEN [result |-> "handled", out |-> display_session(tt), reset |-> FALSE]
    ELSE [result |-> "handled", out |-> <<[k |-> "unknown_command", cmd |-> cmd]>>,
          reset |-> FALSE]

\* handle_command on its cmd: what it returns, what it prints, and whether
\* it replaces the agent's checkpointer
handle_command(cmd, tt) ==
    IF cmd \in QuitWords
    THEN [result |-> "exit", out |-> <<>>, reset |-> FALSE]
    ELSE IF cmd = "clear"
    THEN [result |-> "handled", out |-> <<[k |-> "banner"]>>, reset |-> TRUE]
    ELSE IF cmd = "help"
    THEN [result |-> "handled", out |-> <<[k |-> "help"]>>, reset |-> FALSE]
    ELSE IF cmd = "tokens"
    THEN [result |-> "handled", out |-> display_session(tt), reset |-> FALSE]
    ELSE [result |-> "handled", out |-> <<[k |-> "unknown_command", cmd |-> cmd]>>,
          reset |-> FALSE]

\* what execute_bash_command prints
execute_bash_command(command) ==
    LET cmd == str_lstrip(str_strip(command), {"!"}) IN
    IF cmd = "" THEN <<>> ELSE <<[k |-> "bash", cmd |-> cmd]>>

\* a loop that hands the slash commands it does not know to the agent
ClassifyUnknownToAgent(user_input) ==
    IF user_input = "" THEN "empty"
    ELSE IF startswith(user_input, "/")
              /\ CommandName(user_input) \in QuitWords \cup {"clear", "help", "tokens"}
    THEN "slash"
    ELSE IF startswith(user_input, "!") THEN "bang"
    ELSE IF str_lower(user_input) \in QuitWords THEN "quit"
    ELSE "task"

\* the branch one iteration of the console loop takes for a stripped line
Classify(user_input) ==
    IF user_input = "" THEN "empty"
    ELSE IF startswith(user_input, "/") THEN "slash"
    ELSE IF startswith(user_input, "!") THEN "bang"
    ELSE IF str_lower(user_input) \in QuitWords THEN "quit"
    ELSE "task"

\* user_input.strip() and what the loop makes of it, per line
LineTable ==
    [line \in Lines |->
        LET user_input == str_strip(line) IN
        [user_input |-> user_input,
         class |-> Classify(user_input),
         cmd |-> CommandName(user_input),
         final_input |-> FinalInput(user_input, NoFiles),
         bash |-> execute_bash_command(user_input)]]

\* the frame of a finished execute_task is gone once the loop goes on
FrameGone ==
    /\ exit' = "none"
    /\ has_responded' = FALSE
    /\ captured_input_tokens' = 0
    /\ captured_output_tokens' = 0
    /\ current_todos' = None
    /\ spinner_active' = FALSE
    /\ running' = FALSE
    /\ stream_input' = [kind |-> "none"]
    /\ hitl_response' = None
    /\ pending' = <<>>
    /\ decisions' = <<>>
    /\ requests' = <<>>
    /\ promptLog' = <<>>
    /\ agent_calls' = <<>>
    /\ lastEvent' = NoEvent
    /\ textIn' = <<>>
    /\ frags' = <<>>
    /\ interrupts' = 0
    /\ resumed' = "none"
    /\ shown' = 0
    /\ usageIn' = {}

\* the loop reads at any time, a turn in progress or not
AwaitingInputAnytime == cli \in {"prompt", "task"}

\* simple_cli is at `await session.prompt_async()`: it got there from the
\* start or from the operation of the line before, which has returned
AwaitingInput == cli = "prompt" /\ exit = "none"

\* execute_task has returned: its frame is dropped and the while loop of
\* simple_cli starts its next iteration
LoopContinue ==
    /\ cli = "prompt"
    /\ exit # "none"
    /\ console' = <<>>
    /\ FrameGone
    /\ UNCHANGED <<prompter, mention, completer, home, render, cli, tracker, adds, checkpointer, pc, nLines, nEvents>>

\* prompt_async raises EOFError or KeyboardInterrupt: the loop ends
ReadEnd ==
    /\ AwaitingInput
    /\ cli' = "exited"
    /\ console' = <<>>
    /\ FrameGone
    /\ UNCHANGED <<prompter, mention, completer, home, render, tracker, adds, checkpointer, pc, nLines, nEvents>>

\* a line that is not handed to the agent: empty, slash command, shell
\* command or quit word
ReadCommand ==
    /\ AwaitingInput
    /\ nLines < MaxLines
    /\ \E line \in Lines :
         LET class == LineTable[line].class
             r == handle_command(LineTable[line].cmd, tracker)
         IN
         /\ class # "task"
         /\ console' = CASE class = "slash" -> r.out
                         [] class = "bang" -> LineTable[line].bash
                         [] OTHER -> <<>>
         /\ checkpointer' = IF class = "slash" /\ r.reset THEN 0 ELSE checkpointer
         /\ cli' = IF class = "quit" \/ (class = "slash" /\ r.result = "exit")
                   THEN "exited" ELSE "prompt"
    /\ nLines' = nLines + 1
    /\ FrameGone
    /\ UNCHANGED <<prompter, mention, completer, home, render, tracker, adds, pc, nEvents>>

\* a plain line: execute_task up to the first agent.stream call
ReadTask ==
    /\ AwaitingInput
    /\ nLines < MaxLines
    /\ \E line \in Lines :
         /\ LineTable[line].class = "task"
         /\ stream_input' = MessagesPayload(LineTable[line].final_input)
         /\ agent_calls' = <<StreamCall(stream_input')>>
    /\ nLines' = nLines + 1
    /\ cli' = "task"
    /\ pc' = "streaming"
    /\ exit' = "none"
    /\ console' = <<>>
    /\ has_responded' = FALSE
    /\ captured_input_tokens' = 0
    /\ captured_output_tokens' = 0
    /\ current_todos' = None
    /\ spinner_active' = TRUE
    /\ running' = TRUE
    /\ hitl_response' = None
    /\ pending' = <<>>
    /\ decisions' = <<>>
    /\ requests' = <<>>
    /\ promptLog' = <<>>
    /\ checkpointer' = checkpointer + 1
    /\ lastEvent' = NoEvent
    /\ textIn' = <<>>
    /\ frags' = <<>>
    /\ interrupts' = 0
    /\ resumed' = "none"
    /\ shown' = 0
    /\ usageIn' = {}
    /\ UNCHANGED <<prompter, mention, completer, home, render, tracker, adds, nEvents>>

Next ==
    \/ LoopContinue
    \/ ReadEnd
    \/ ReadCommand
    \/ ReadTask
    \/ StreamChunk
    \/ StreamEnd
    \/ StreamError
    \/ StreamAbort
    \/ Prompt
    \/ InvokeReturn
    \/ InvokeError
    \/ InvokeAbort

Spec == Init /\ [][Next]_vars

\* a step of execute_task: the agent delivers the next chunk or ends the
\* stream, the user answers the approval prompt, agent.invoke comes back
TurnStep ==
    \/ StreamChunk
    \/ StreamEnd
    \/ StreamError
    \/ StreamAbort
    \/ Prompt
    \/ InvokeReturn
    \/ InvokeError
    \/ InvokeAbort

\* one call of execute_task, for the first line read
TaskNext == ReadTask \/ TurnStep

\* execute_task with an agent and a user who, once asked, answer: no
\* stream and no prompt is left waiting forever
FairSpec == Init /\ [][TaskNext]_vars /\ WF_vars(TurnStep)

\* ------------------------------------------------- TokenTracker on its own
\* everything but the tracker
consoleVars == <<cli, checkpointer, pc, exit, taskVars, hitlVars, agent_calls,
                 nLines, nEvents, ghostVars, prompter, mention, completer, home, render>>

\* token_tracker.add(input_tokens, output_tokens) with any two counts
AddCall ==
    /\ Len(adds) < MaxAdds
    /\ \E input_tokens, output_tokens \in 0..MaxTok :
         /\ tracker' = TokenTracker_add(tracker, input_tokens, output_tokens)
         /\ adds' = Append(adds, <<input_tokens, output_tokens>>)
    /\ UNCHANGED consoleVars

TrackerNext == AddCall

TrackerSpec == Init /\ [][TrackerNext]_vars

\* --------------------------------- prompt_for_shell_approval on its own
\* the try/finally around the menu: the loop has ended the way `ended`
\* says, the settings are not put back on KeyboardInterrupt
LeaveRawNoFinally(p, ended) ==
    [p EXCEPT !.term = IF ended = "interrupt" THEN @ ELSE p.old_settings[1],
              !.pc = IF ended = "interrupt" THEN "raised" ELSE "returned",
              !.decision = IF ended = "interrupt" THEN None
                           ELSE Some(DecisionFor(p.selected))]

\* the finally clause puts old_settings back; then the decision is
\* returned or KeyboardInterrupt goes on to the caller
LeaveRaw(p, ended) ==
    [p EXCEPT !.term = p.old_settings[1],
              !.pc = IF ended = "interrupt" THEN "raised" ELSE "returned",
              !.decision = IF ended = "interrupt" THEN None
                           ELSE Some(DecisionFor(p.selected))]

\* termios.tcgetattr and tty.setraw succeed: the menu is drawn
EnterRaw ==
    /\ prompter.pc = "idle"
    /\ prompter' = [prompter EXCEPT !.pc = "raw", !.selected = 0,
                                    !.old_settings = Some(prompter.term),
                                    !.term = "raw"]
    /\ UNCHANGED <<sessionVars, mention, completer, home, render>>

\* termios.tcgetattr raises termios.error: the fallback asks for a line
EnterFallback ==
    /\ prompter.pc = "idle"
    /\ prompter' = [prompter EXCEPT !.pc = "fallback"]
    /\ UNCHANGED <<sessionVars, mention, completer, home, render>>

\* the user presses a key: the loop reads its characters
PressKey ==
    /\ prompter.pc = "raw"
    /\ Len(prompter.keys) < MaxKeys
    /\ \E key \in Keys :
         LET st == MenuLoop([selected |-> prompter.selected,
                             pending |-> prompter.pending, ended |-> "no"],
                            KeyBytes(key))
             p == [prompter EXCEPT !.selected = st.selected,
                                   !.pending = st.pending,
                                   !.keys = Append(@, key)]
         IN prompter' = IF st.ended = "no" THEN p ELSE LeaveRaw(p, st.ended)
    /\ UNCHANGED <<sessionVars, mention, completer, home, render>>

\* the user answers the fallback's input()
FallbackAnswer ==
    /\ prompter.pc = "fallback"
    /\ \E line \in FallbackLines :
         prompter' = [prompter EXCEPT
                        !.selected = FallbackSelect(line),
                        !.pc = "returned",
                        !.decision = Some(DecisionFor(FallbackSelect(line)))]
    /\ UNCHANGED <<sessionVars, mention, completer, home, render>>

PromptInit ==
    /\ SessionInit
    /\ \E t \in TermSettings : prompter = PrompterIdle(t)
    /\ mention = MentionIdle("", NoFiles)
    /\ completer = CompleterIdle(Document("", 0))
    /\ home = HomeIdle(NoAgents)
    /\ render = RenderIdle("", "")

PromptNext ==
    \/ EnterRaw
    \/ EnterFallback
    \/ PressKey
    \/ FallbackAnswer

PromptSpec == PromptInit /\ [][PromptNext]_vars

\* ---------------------------------------- parse_file_mentions on its own
MentionChars == {"@", "a", " ", "\\", "~"}

RECURSIVE StringsUpTo(_)
\* the strings of at most n of these characters
StringsUpTo(n) ==
    IF n = 0 THEN {""}
    ELSE LET S == StringsUpTo(n - 1) IN S \cup {s \o c : s \in S, c \in MentionChars}

\* the texts handed to parse_file_mentions
MentionTexts == StringsUpTo(MaxTextLen) \cup {"@a.txt and @b\\ c.txt"}

\* the file systems the tokens of a text can be resolved in
FileSystems(text) ==
    LET tokens == MentionTokens(text)
        paths == {tokens[k] : k \in 1..Len(tokens)}
    IN {fs \in [paths -> PathKinds \cup {"nohome"}] :
            \A path \in paths : fs[path] \in KindsOf(path)}

\* execute_task calls parse_file_mentions: it returns, or an exception
\* leaves it and execute_task with it
ParseMentions ==
    /\ mention.pc = "idle"
    /\ LET r == parse_file_mentions(mention.text, mention.fs) IN
       mention' = [mention EXCEPT !.pc = IF r.raised THEN "raised" ELSE "parsed",
                                  !.tokens = MentionTokens(mention.text),
                                  !.files = r.files,
                                  !.out = r.out,
                                  !.prompt_text = IF r.raised THEN None ELSE Some(r.text)]
    /\ UNCHANGED <<sessionVars, prompter, completer, home, render>>

\* execute_task builds final_input and the payload of the first call
SubmitInput ==
    /\ mention.pc = "parsed"
    /\ mention' = [mention EXCEPT
           !.pc = "submitted",
           !.stream_input = MessagesPayload(
               BuildInput(mention.prompt_text[1], mention.files, mention.fs))]
    /\ UNCHANGED <<sessionVars, prompter, completer, home, render>>

MentionInit ==
    /\ SessionInit
    /\ prompter = PrompterIdle("cooked")
    /\ \E text \in MentionTexts :
         \E fs \in FileSystems(text) : mention = MentionIdle(text, fs)
    /\ completer = CompleterIdle(Document("", 0))
    /\ home = HomeIdle(NoAgents)
    /\ render = RenderIdle("", "")

MentionNext ==
    \/ ParseMentions
    \/ SubmitInput

MentionSpec == MentionInit /\ [][MentionNext]_vars

\* ------------------------------------------------ the completer on its own
CompleterChars == {"/", "!", "@", "c", "L"}

RECURSIVE StringsOver(_, _)
\* the strings of at most n characters of chars
StringsOver(chars, n) ==
    IF n = 0 THEN {""}
    ELSE LET S == StringsOver(chars, n - 1) IN S \cup {s \o c : s \in S, c \in chars}

\* the documents the line editor asks completions for
Documents ==
    {Document(text, cursor_position) :
        text \in StringsOver(CompleterChars, MaxTextLen), cursor_position \in 0..MaxTextLen}

\* what PathCompleter may find
PathCompletions == {<<>>, <<"Lc", "c/">>}

\* merge_completers([CommandCompleter(), BashCompleter(), FilePathCompleter()])
\* asked for the completions of the document
Complete ==
    /\ completer.pc = "idle"
    /\ \E all_completions \in PathCompletions :
         LET command == CommandCompleter(completer.document)
             bash == BashCompleter(completer.document)
             file == FilePathCompleter(completer.document, all_completions)
         IN completer' = [completer EXCEPT !.pc = "done",
                                           !.command = command,
                                           !.bash = bash,
                                           !.file = file,
                                           !.merged = command \o bash \o file]
    /\ UNCHANGED <<sessionVars, prompter, mention, home, render>>

CompleterInit ==
    /\ SessionInit
    /\ prompter = PrompterIdle("cooked")
    /\ mention = MentionIdle("", NoFiles)
    /\ home = HomeIdle(NoAgents)
    /\ render = RenderIdle("", "")
    /\ \E document \in Documents :
         /\ document.cursor_position <= Len(document.text)
         /\ completer = CompleterIdle(document)

CompleterNext == Complete

CompleterSpec == CompleterInit /\ [][CompleterNext]_vars

\* ----------------------------------------------- reset_agent on its own
\* deepagents reset --agent NAME [--target SOURCE]
ResetAgent ==
    /\ home.calls < MaxResets
    /\ \E agent_name \in AgentNames, source_agent \in {None} \cup {Some(n) : n \in AgentNames} :
         LET r == reset_agent(home.dirs, agent_name, source_agent) IN
         home' = [dirs |-> r.dirs,
                  calls |-> home.calls + 1,
                  last |-> Some([agent_name |-> agent_name,
                                 source_agent |-> source_agent,
                                 before |-> home.dirs]),
                  out |-> r.out]
    /\ UNCHANGED <<sessionVars, prompter, mention, completer, render>>

ResetInit ==
    /\ SessionInit
    /\ prompter = PrompterIdle("cooked")
    /\ mention = MentionIdle("", NoFiles)
    /\ completer = CompleterIdle(Document("", 0))
    /\ render = RenderIdle("", "")
    /\ \E dirs \in [AgentNames -> AgentDirs] : home = HomeIdle(dirs)

ResetNext == ResetAgent

ResetSpec == ResetInit /\ [][ResetNext]_vars

\* ------------------------------------------ the tool-call line on its own
RenderTools == {"shell", "grep", "my_tool"}

\* tool_args of a chunk: the text of a mapping, or text that is no JSON
RenderArgs ==
    { json_dumps(items) : items \in ArgMappings }
        \cup { ValueOfLen[n] : n \in ValueLengths }

\* the branch of execute_task that prints the line of a tool-call chunk
RenderToolCall ==
    /\ render.pc = "idle"
    /\ render' = [render EXCEPT !.pc = "done",
                                !.line = ToolCallLine(render.tool_name, render.tool_args)]
    /\ UNCHANGED <<sessionVars, prompter, mention, completer, home>>

RenderInit ==
    /\ SessionInit
    /\ prompter = PrompterIdle("cooked")
    /\ mention = MentionIdle("", NoFiles)
    /\ completer = CompleterIdle(Document("", 0))
    /\ home = HomeIdle(NoAgents)
    /\ \E tool_name \in RenderTools, tool_args \in RenderArgs :
         render = RenderIdle(tool_name, tool_args)

RenderNext == RenderToolCall

RenderSpec == RenderInit /\ [][RenderNext]_vars

\* ------------------------------------------------------------- properties
\* the frame of execute_task is there: the turn runs or has just ended
InFrame == cli = "task" \/ exit # "none"

\* the items of kind k among the printed items
ItemsOfKind(items, k) == SelectSeq(items, LAMBDA item : item.k = k)

\* the text fragments printed so far, in the order printed
RenderedText == [i \in 1..Len(ItemsOfKind(console, "text")) |->
                    ItemsOfKind(console, "text")[i].text]

\* C1: in a turn whose stream held no interrupt, the text printed is at
\* every moment exactly the sequence of non-empty text fragments delivered
\* so far, each once and in arrival order, whatever else was delivered in
\* between.
C1_TextOnceInOrder ==
    (InFrame /\ interrupts = 0) => RenderedText = textIn

\* C1 witness: a completed turn without interrupt printed a, then a tool
\* line, a tool error or a todo list, then b.
C1_Witness ==
    /\ exit = "completed"
    /\ interrupts = 0
    /\ textIn = <<"a", "b">>
    /\ \E i, j, l \in 1..Len(console) :
         /\ i < j /\ j < l
         /\ console[i] = TextItem("a")
         /\ console[j].k \in {"tool_call", "tool_error", "todos"}
         /\ console[l] = TextItem("b")

\* the last prompt of the interrupt ended by Ctrl+C
PromptAborted == promptLog # <<>> /\ promptLog[Len(promptLog)].interrupt

\* the decisions of the interrupt handled last are complete
DecisionsCollected ==
    InFrame /\ interrupts > 0 /\ pc # "prompting" /\ ~PromptAborted

\* C2: the prompter is invoked for the action requests in their order,
\* one decision per prompt; once the decisions of an interrupt with N
\* requests are complete, N prompts were made and decision i is the answer
\* to request i, also after a reject.
C2_OneDecisionPerRequest ==
    /\ InFrame =>
         /\ Len(promptLog) <= Len(requests)
         /\ \A i \in 1..Len(promptLog) : promptLog[i].request = requests[i]
         /\ \A i \in 1..Len(decisions) :
              i <= Len(promptLog) /\ decisions[i] = promptLog[i].decision
    /\ DecisionsCollected =>
         /\ Len(promptLog) = Len(requests)
         /\ Len(decisions) = Len(requests)

\* C2 witness: two requests, the first rejected and the second approved.
C2_Witness ==
    /\ DecisionsCollected
    /\ Len(requests) = 2
    /\ decisions = <<RejectDecision, ApproveDecision>>

RejectedNotice == NoticeItem("Command rejected. Returning to prompt.")
InterruptedNotice == NoticeItem("Interrupted by user")
ResumeErrorNotice == NoticeItem("Error resuming after rejection")

IsIn(item, items) == \E i \in 1..Len(items) : items[i] = item

\* the decisions of the last interrupt are complete and hold a reject
RejectCollected ==
    DecisionsCollected /\ \E i \in 1..Len(decisions) : decisions[i] = RejectDecision

\* C3: once the decisions of an interrupt hold a reject, the agent is
\* resumed exactly once, by one invoke call carrying these decisions, no
\* stream call follows, nothing but notices is printed after the
\* interrupt was read, and the turn ends back at the prompt with the
\* "Command rejected" notice printed.
C3_RejectEndsTurn ==
    RejectCollected =>
        /\ pc \in {"invoking", "idle"}
        /\ Len(agent_calls) = interrupts + 1
        /\ agent_calls[Len(agent_calls)]
             = InvokeCall(ResumePayload([decisions |-> decisions]))
        /\ \A j \in 1..(Len(agent_calls) - 1) : agent_calls[j].op = "stream"
        /\ \A i \in (shown + 1)..Len(console) : console[i].k = "notice"
        /\ pc = "invoking" => Len(console) = shown
        /\ pc = "idle" =>
             /\ IsIn(RejectedNotice, console)
             /\ cli = "prompt"
             /\ exit \in {"rejected", "interrupted"}
             /\ exit = "interrupted" => resumed = "interrupt"

\* C3 witness: text was printed, then an interrupt with two requests was
\* answered approve and reject, and the turn ended rejected.
C3_Witness ==
    /\ RejectCollected
    /\ exit = "rejected"
    /\ resumed = "ok"
    /\ decisions = <<ApproveDecision, RejectDecision>>
    /\ textIn # <<>>

\* the decisions of the last interrupt are complete and all approve
AllApproved ==
    DecisionsCollected /\ \A i \in 1..Len(decisions) : decisions[i] = ApproveDecision

\* C4: with every interrupt approved, after k interrupts the agent has
\* been called k+1 times: the first call streams the message payload and
\* each interrupt is followed by one stream call with the resumption
\* payload, the last one carrying the decisions just collected.
C4_OneResumePerInterrupt ==
    AllApproved =>
        /\ Len(agent_calls) = interrupts + 1
        /\ agent_calls[1].op = "stream" /\ agent_calls[1].input.kind = "messages"
        /\ \A j \in 2..Len(agent_calls) :
             agent_calls[j].op = "stream" /\ agent_calls[j].input.kind = "resume"
        /\ agent_calls[Len(agent_calls)]
             = StreamCall(ResumePayload([decisions |-> decisions]))

\* C4 witness: a turn completed after two approved interrupts, the second
\* with a request to approve.
C4_Witness ==
    /\ AllApproved
    /\ interrupts = 2
    /\ Len(requests) >= 1
    /\ exit = "completed"
    /\ Len(agent_calls) = 3

\* C5: Ctrl+C while the engine waits for a chunk or the prompter for a key
\* leaves the spinner stopped, prints the interrupted notice after the
\* output already printed, makes no agent call and returns to the prompt.
C5_AbortReturnsAtOnce ==
    [][(pc \in {"streaming", "prompting"} /\ exit' = "interrupted") =>
         /\ ~running'
         /\ console' = Append(console, InterruptedNotice)
         /\ agent_calls' = agent_calls
         /\ tracker' = tracker
         /\ pc' = "idle"
         /\ cli' = "prompt"]_vars

\* C5 witness: the turn was aborted while the spinner was active, after
\* output had been printed.
C5_Witness ==
    /\ exit = "interrupted"
    /\ resumed = "none"
    /\ spinner_active
    /\ ~running
    /\ Len(console) >= 2

\* C6: after an error raised during a turn the console loop is back at
\* its prompt.
C6_ErrorKeepsLoop == exit = "raised" => cli = "prompt"

\* C7: a chunk of unexpected shape changes nothing of the turn and the
\* engine goes on consuming the stream.
C7_MalformedSkipped ==
    [][(nEvents' = nEvents + 1 /\ lastEvent' \in MalformedChunks) =>
         /\ pc' = "streaming"
         /\ UNCHANGED <<taskVars, agent_calls, cli>>]_vars

\* C8: when the resumption call after a rejection raises, the error and
\* then the "Command rejected" notice are printed, and execute_task
\* returns to the prompt with the rejected outcome.
C8_ResumeErrorStillRejected ==
    /\ resumed = "error" =>
         /\ pc = "idle"
         /\ cli = "prompt"
         /\ exit = "rejected"
         /\ Len(console) >= 2
         /\ console[Len(console) - 1] = ResumeErrorNotice
         /\ console[Len(console)] = RejectedNotice
    /\ resumed = "ok" =>
         /\ exit = "rejected"
         /\ console[Len(console)] = RejectedNotice

\* C8 witness: the resumption call after a rejection raised.
C8_Witness == resumed = "error" /\ RejectCollected

\* s occurs in line
Contains(line, s) ==
    \E i \in 1..Len(line) :
        i + Len(s) - 1 <= Len(line) /\ SubSeq(line, i, i + Len(s) - 1) = s

\* C9: after the fragments name="shell" without arguments and
\* args={"command":"ls"} without name, one tool-call line is printed and
\* it shows command=ls.
C9_OneLineWithArgs ==
    (InFrame /\ frags = <<ToolCallChunk("shell", ""), ToolCallChunk("", ArgsLs)>>) =>
        /\ Len(ItemsOfKind(console, "tool_call")) = 1
        /\ Contains(ItemsOfKind(console, "tool_call")[1].line, "command=ls")

\* C10: a tool result prints its content exactly when the tool is shell,
\* the status is not success and the content is not empty; any other tool
\* result prints nothing.
C10_OnlyShellErrorsShown ==
    [][(nEvents' = nEvents + 1 /\ lastEvent'.shape = "tool") =>
         LET text == format_tool_message_content(lastEvent'.content) IN
         console' = console \o
            (IF lastEvent'.name = "shell" /\ lastEvent'.status # "success"
                /\ text # ""
             THEN <<ToolErrorItem(text)>> ELSE <<>>)]_vars

\* C10 witness: a failed shell command's output was printed.
C10_Witness ==
    /\ pc = "streaming"
    /\ lastEvent = ToolMessage("shell", "error", StrContent("boom"))
    /\ console # <<>>
    /\ console[Len(console)] = ToolErrorItem("boom")

\* the step delivers a chunk that carries a todo snapshot
TodoDelivered ==
    nEvents' = nEvents + 1 /\ lastEvent'.shape = "state" /\ lastEvent'.todos # None

\* C11: the tracked snapshot changes only when a snapshot is delivered and
\* is then the delivered one as a whole, from the first stream call of the
\* turn to its end; a delivered snapshot is drawn, by render_todo_list,
\* exactly when it differs from the tracked one, so the same snapshot
\* delivered twice is drawn once.
C11_TodoRedrawOnChange ==
    [][/\ TodoDelivered =>
            /\ current_todos' = lastEvent'.todos
            /\ console' = console \o
                  (IF lastEvent'.todos # current_todos
                   THEN render_todo_list(lastEvent'.todos[1]) ELSE <<>>)
       /\ (pc # "idle" /\ ~TodoDelivered) => current_todos' = current_todos]_vars

\* C11 witness: a snapshot was drawn, an interrupt was approved, and the
\* same snapshot delivered by the resumed stream was not drawn again.
C11_Witness ==
    /\ nLines = 1
    /\ nEvents = 3
    /\ interrupts = 1
    /\ shown = 1
    /\ lastEvent = StateChunk(Some(Todos1))
    /\ current_todos = Some(Todos1)
    /\ console = render_todo_list(Todos1)

\* the largest of a set of counts, 0 for none
MaxOf(S) == IF S = {} THEN 0 ELSE CHOOSE x \in S : \A y \in S : y <= x

\* C12: during and at the end of a turn the captured input count is the
\* largest input count and the captured output count the largest output
\* count among the usage reports delivered so far in the turn, whatever
\* their order and however often they are repeated.
C12_CapturedIsMaximum ==
    InFrame =>
        /\ captured_input_tokens = MaxOf({u.input_tokens : u \in usageIn})
        /\ captured_output_tokens = MaxOf({u.output_tokens : u \in usageIn})

\* C12 witness: a turn completed after two reports, one before and one
\* after an approved interrupt, neither of which holds both maxima.
C12_Witness ==
    /\ exit = "completed"
    /\ interrupts = 1
    /\ Cardinality(usageIn) = 2
    /\ captured_input_tokens = 2
    /\ captured_output_tokens = 1000

RECURSIVE ApplyAdds(_, _)
\* the tracker after the calls of add with the arguments in seq
ApplyAdds(tt, seq) ==
    IF seq = <<>> THEN tt
    ELSE ApplyAdds(TokenTracker_add(tt, seq[1][1], seq[1][2]), Tail(seq))

\* seq with the calls i and i+1 exchanged
Swapped(seq, i) ==
    [j \in 1..Len(seq) |-> IF j = i THEN seq[i + 1] ELSE IF j = i + 1 THEN seq[i]
                            ELSE seq[j]]

\* C13: exchanging two successive calls of add leaves session_input and
\* session_output as they are, and last_input and last_output are the
\* arguments of the most recent call.
C13_AddOrderIndependent ==
    /\ \A i \in 1..(Len(adds) - 1) :
         LET other == ApplyAdds(TokenTrackerInit, Swapped(adds, i)) IN
         /\ other.session_input = tracker.session_input
         /\ other.session_output = tracker.session_output
    /\ adds # <<>> =>
         /\ tracker.last_input = adds[Len(adds)][1]
         /\ tracker.last_output = adds[Len(adds)][2]

\* C13 witness: add(2,1) then add(1,2).
C13_Witness ==
    /\ adds = <<(<<2, 1>>), (<<1, 2>>)>>
    /\ tracker = [session_input |-> 3, session_output |-> 3,
                  last_input |-> 1, last_output |-> 2]

RECURSIVE SumOf(_, _)
\* the sum of the k-th arguments of the calls in seq
SumOf(seq, k) == IF seq = <<>> THEN 0 ELSE seq[1][k] + SumOf(Tail(seq), k)

\* C14: no step of the console session, whatever the line read or the way
\* a turn ends, decreases session_input or session_output, and after every
\* step each is the sum of the counts passed to add so far.
C14_SessionTotalsAccumulate ==
    [][/\ tracker'.session_input >= tracker.session_input
       /\ tracker'.session_output >= tracker.session_output
       /\ tracker'.session_input = SumOf(adds', 1)
       /\ tracker'.session_output = SumOf(adds', 2)]_vars

\* C14 witness: two turns passed their counts to add.
C14_Witness ==
    /\ Len(adds) = 2
    /\ nLines = 2
    /\ tracker.session_input = adds[1][1] + adds[2][1]
    /\ tracker.session_input > tracker.last_input

\* the counts the turn owes the tracker: the largest counts reported
UsageMaxima ==
    <<MaxOf({u.input_tokens : u \in usageIn}), MaxOf({u.output_tokens : u \in usageIn})>>

\* C15: the tracker is written only by the step that ends the stream of a
\* turn without interrupt pending, abort or error, once per turn; that step
\* calls add, with the largest counts reported, exactly when the turn
\* printed text and a report held a count other than zero.
C15_AddOnlyWhenDone ==
    [][/\ (tracker' # tracker \/ adds' # adds) =>
            (pc = "streaming" /\ pc' = "idle" /\ exit' = "completed")
       /\ (pc = "streaming" /\ exit' = "completed") =>
            IF textIn # <<>> /\ UsageMaxima # <<0, 0>>
            THEN /\ adds' = Append(adds, UsageMaxima)
                 /\ tracker' = TokenTracker_add(tracker, UsageMaxima[1], UsageMaxima[2])
            ELSE /\ adds' = adds
                 /\ tracker' = tracker]_vars

\* C15 witness: a turn with text and two reports around an approved
\* interrupt completed and passed the maxima to add.
C15_Witness ==
    /\ exit = "completed"
    /\ interrupts = 1
    /\ textIn # <<>>
    /\ adds = <<(<<2, 1000>>)>>
    /\ tracker.last_output = 1000

\* C16: while execute_task runs, from its first stream call through every
\* approval and resumption to its return, no line is read, no submission
\* is recorded and the turn's first agent call stays the one it started
\* with.
C16_NoReadDuringTurn ==
    [][pc # "idle" =>
         /\ nLines' = nLines
         /\ checkpointer' = checkpointer
         /\ cli = "task"
         /\ agent_calls # <<>>
         /\ agent_calls' # <<>>
         /\ Head(agent_calls') = Head(agent_calls)]_vars

\* C16 witness: the turn of the first line is at the approval prompt of
\* its second interrupt and a further line could still be read.
C16_Witness ==
    /\ pc = "prompting"
    /\ interrupts = 2
    /\ nLines = 1
    /\ nLines < MaxLines

RECURSIVE ArrowCount(_)
\* the arrow keys among the keys pressed
ArrowCount(keys) ==
    IF keys = <<>> THEN 0
    ELSE (IF Head(keys) \in ArrowKeys THEN 1 ELSE 0) + ArrowCount(Tail(keys))

\* the key pressed last at the menu
LastKey == prompter.keys[Len(prompter.keys)]

\* C17: while the menu is open the selection is approve after an even and
\* reject after an odd number of arrow keys, and the decision returned on
\* Enter is the one selected so; a reject decision carries the message
\* "User rejected the command".
C17_EnterConfirmsArrowParity ==
    LET byArrows == ArrowCount(prompter.keys) % 2 IN
    /\ prompter.pc = "raw" => prompter.selected = byArrows
    /\ (prompter.pc = "returned" /\ prompter.keys # <<>> /\ LastKey = "enter") =>
          prompter.decision = Some(DecisionFor(byArrows))
    /\ (prompter.decision # None /\ prompter.decision[1].type = "reject") =>
          prompter.decision[1].message = "User rejected the command"

\* C18: once a or A is pressed at the menu the prompter has returned
\* approve, and once r or R is pressed it has returned reject, whatever
\* was pressed before.
C18_LetterConfirmsAtOnce ==
    prompter.keys # <<>> =>
        /\ LastKey \in {"a", "A"} =>
              (prompter.pc = "returned" /\ prompter.decision = Some(ApproveDecision))
        /\ LastKey \in {"r", "R"} =>
              (prompter.pc = "returned" /\ prompter.decision = Some(RejectDecision))

\* C19: when the raw-mode menu has been left, by a decision or by Ctrl+C,
\* the terminal has the settings it had on entry; Ctrl+C leaves no
\* decision and a return leaves one.
C19_TerminalRestored ==
    /\ prompter.pc = "raw" => prompter.old_settings = Some(prompter.entered)
    /\ prompter.pc \in {"returned", "raised"} =>
          /\ prompter.term = prompter.entered
          /\ prompter.term # "raw"
    /\ prompter.pc = "raised" => prompter.decision = None
    /\ prompter.pc = "returned" => prompter.decision # None

\* C19 witness: the menu was entered with the echo off, an arrow was
\* pressed and Ctrl+C ended it.
C19_Witness ==
    /\ prompter.pc = "raised"
    /\ prompter.keys = <<"right", "ctrl_c">>
    /\ prompter.entered = "cooked_noecho"
    /\ prompter.term = "cooked_noecho"

\* a character the claimed rule lets into a token: any character that is
\* not whitespace, or a space behind a backslash
ClaimedTokenChar(text, j) ==
    LET c == CharAt(text, j) IN
    \/ c \notin Whitespace
    \/ c = " " /\ j > 1 /\ CharAt(text, j - 1) = "\\"

RECURSIVE ClaimedEnd(_, _)
ClaimedEnd(text, j) ==
    IF j <= Len(text) /\ ClaimedTokenChar(text, j) THEN ClaimedEnd(text, j + 1) ELSE j

RECURSIVE ClaimedTokens(_, _)
\* one token per @ followed by one or more such characters, the escaped
\* spaces as plain spaces
ClaimedTokens(text, i) ==
    IF i > Len(text) THEN <<>>
    ELSE IF CharAt(text, i) = "@" /\ ClaimedEnd(text, i + 1) > i + 1
    THEN <<str_replace(SubSeq(text, i + 1, ClaimedEnd(text, i + 1) - 1), "\\ ", " ")>>
         \o ClaimedTokens(text, ClaimedEnd(text, i + 1))
    ELSE ClaimedTokens(text, i + 1)

\* C20: the tokens scanned from a text are, in order, one per @ followed
\* by one or more non-whitespace characters, a space behind a backslash
\* counted in and turned into a plain space; "@a.txt and @b\ c.txt" gives
\* a.txt and b c.txt.
C20_MentionTokensAsClaimed ==
    mention.pc = "parsed" =>
        /\ mention.tokens = ClaimedTokens(mention.text, 1)
        /\ mention.text = "@a.txt and @b\\ c.txt" =>
              mention.tokens = <<"a.txt", "b c.txt">>

\* the tokens that name an existing regular file, in their order
RegularFiles(tokens, fs) ==
    SelectSeq(tokens, LAMBDA t : fs[t] \in {"file", "unreadable"})

\* C21: the expansion of a text always runs to its end; the resolved list
\* is exactly the tokens that name existing regular files, in the order of
\* the text, and every other token has produced one warning.
C21_MissingTokensWarned ==
    mention.pc # "idle" =>
        /\ mention.pc # "raised"
        /\ mention.files = RegularFiles(mention.tokens, mention.fs)
        /\ Len(mention.out) = Len(mention.tokens) - Len(mention.files)
        /\ \A k \in 1..Len(mention.out) : mention.out[k].k = "warning"

\* the content of the one user message of the payload built
SubmittedContent == mention.stream_input.messages[1].content

CommandsWithPrefix(prefix) ==
    SelectSeq(COMMANDS, LAMBDA w : IsPrefix(str_lower(prefix), w))

\* the rest of C23, which does not depend on the cursor: no command
\* candidate unless the line starts with /, no shell hint unless it starts
\* with !, none at all for a line with neither marker and without @
TriggersAsClaimed ==
    LET text == completer.document.text IN
    /\ completer.command # <<>> => startswith(text, "/")
    /\ completer.bash # <<>> => startswith(text, "!")
    /\ (~startswith(text, "/") /\ ~startswith(text, "!") /\ ~IsSubstring("@", text))
          => completer.merged = <<>>
    /\ (text = "/cL" /\ completer.document.cursor_position = 3)
          => completer.command = <<"clear">>

\* C23 as stated: for a line that starts with /, the command candidates are
\* the command names the text after the / is a case-insensitive prefix of.
C23_CommandsOfWholeLine ==
    completer.pc = "done" =>
        /\ TriggersAsClaimed
        /\ LET text == completer.document.text IN
           startswith(text, "/") =>
               completer.command = CommandsWithPrefix(SubSeq(text, 2, Len(text)))

\* C23, amended: for a line that starts with /, the command candidates are
\* the command names the text between the / and the cursor is a
\* case-insensitive prefix of; the triggers as stated.
C23_CommandsBeforeCursor ==
    completer.pc = "done" =>
        /\ TriggersAsClaimed
        /\ LET text == completer.document.text IN
           startswith(text, "/") =>
               completer.command =
                   CommandsWithPrefix(SubSeq(text, 2, completer.document.cursor_position))

\* /cL completed with the cursor at its end: clear and nothing else
C23_Witness ==
    /\ completer.pc = "done"
    /\ completer.document = Document("/cL", 3)
    /\ completer.merged = <<"clear">>

\* the lines as the loop strips them
StrippedLines == {str_strip(line) : line \in Lines}

\* those of them that are empty, start with / or !, or are a quit word in
\* some case of letters
NotPlainLines ==
    {content \in StrippedLines :
        \/ content = ""
        \/ startswith(content, "/")
        \/ startswith(content, "!")
        \/ str_lower(content) \in QuitWords}

\* C24: the line a turn was started for is not empty, starts with neither
\* / nor ! and is no quit word in any case of letters; while the output of
\* a slash command or of a shell command stands, no agent call was made.
C24_OnlyPlainLinesReachAgent ==
    /\ agent_calls # <<>> =>
          LET content == Head(agent_calls).input.messages[1].content IN
          /\ content \in StrippedLines
          /\ content \notin NotPlainLines
    /\ (\E k \in 1..Len(console) :
            console[k].k \in {"unknown_command", "bash", "help", "banner"})
          => agent_calls = <<>> /\ cli # "task"

\* the unknown command /nope was reported and no turn started for it
C24_Witness ==
    /\ console = <<[k |-> "unknown_command", cmd |-> "nope"]>>
    /\ agent_calls = <<>>
    /\ cli = "prompt"
    /\ nLines > 0

\* the instructions file of an agent in the agents directory dirs, None
\* when it has none
InstructionsOf(dirs, name) ==
    IF dirs[name] # None /\ "agent.md" \in DOMAIN dirs[name][1]
    THEN Some(dirs[name][1]["agent.md"])
    ELSE None

\* C25: after reset --agent NAME [--target SOURCE], NAME's directory holds
\* only agent.md, with the default instructions or with the instructions
\* SOURCE had before the call (SOURCE = NAME included); when SOURCE had no
\* instructions file an error is printed and the agents directory is as it
\* was.
C25_ResetLeavesOnlyInstructions ==
    home.last # None =>
        LET call == home.last[1]
            source == call.source_agent
            wanted == IF source = None
                      THEN Some(get_default_coding_instructions)
                      ELSE InstructionsOf(call.before, source[1])
        IN
        IF wanted = None
        THEN /\ home.dirs = call.before
             /\ home.out = <<[k |-> "error", source_agent |-> source[1]]>>
        ELSE /\ home.dirs[call.agent_name] # None
             /\ DOMAIN home.dirs[call.agent_name][1] = {"agent.md"}
             /\ InstructionsOf(home.dirs, call.agent_name) = wanted

\* agent a, which had notes and instructions of its own, was reset to
\* itself and keeps its instructions alone
C25_Witness ==
    /\ home.last # None
    /\ home.last[1].agent_name = "a"
    /\ home.last[1].source_agent = Some("a")
    /\ home.last[1].before["a"] # None
    /\ DOMAIN home.last[1].before["a"][1] = AgentFiles
    /\ home.last[1].before["a"][1]["agent.md"] = "x"
    /\ home.dirs["a"] = Some([f \in {"agent.md"} |-> "x"])

\* the calls of agent.stream among the calls of the turn
StreamCalls == SelectSeq(agent_calls, LAMBDA c : c.op = "stream")

\* the chunk read last was an interrupt with action requests
InterruptRead ==
    /\ lastEvent.mode = "updates"
    /\ lastEvent.shape = "interrupt"
    /\ lastEvent.value.kind = "requests"

\* C26: every interrupt handled ended the traversal it was read in, so a
\* traversal in progress has one stream call more than interrupts handled;
\* while decisions are collected or the rejection is reported the
\* interrupt is still the chunk read last; and when the loop stands before
\* its next chunk after an interrupt with requests, nothing was printed
\* since and the stream it reads is the one opened last, with the
\* decisions collected for that interrupt.
C26_InterruptEndsTraversal ==
    /\ interrupts <= Len(StreamCalls)
    /\ pc = "streaming" => interrupts = Len(StreamCalls) - 1
    /\ pc \in {"prompting", "invoking"} => InterruptRead
    /\ (pc = "streaming" /\ InterruptRead) =>
          /\ agent_calls[Len(agent_calls)] =
                 StreamCall(ResumePayload([decisions |-> decisions]))
          /\ Len(decisions) = lastEvent.value.n
          /\ Len(console) = shown

\* an interrupt with two requests was answered and the resumed stream is
\* about to be read
C26_Witness ==
    /\ pc = "streaming"
    /\ lastEvent = InterruptChunk("requests", 2)
    /\ interrupts = 1
    /\ Len(agent_calls) = 2
    /\ Len(decisions) = 2

\* the decisions given at the prompts of the interrupt handled last
PromptedDecisions == [k \in 1..Len(promptLog) |-> promptLog[k].decision]

\* C27: the call that starts a turn is agent.stream with one user message
\* holding final_input of the line; every call added later in the turn
\* carries Command(resume=...) with exactly the decisions given at the
\* prompts of the interrupt just handled; and what the turn has printed
\* stays printed while the turn goes on.
C27_PayloadOfEachCall ==
    [][/\ (agent_calls = <<>> /\ agent_calls' # <<>>) =>
              \E line \in Lines :
                  /\ LineTable[line].class = "task"
                  /\ agent_calls' = <<StreamCall([kind |-> "messages",
                         messages |-> <<[role |-> "user",
                                         content |-> LineTable[line].final_input]>>])>>
       /\ (agent_calls # <<>> /\ agent_calls' # <<>>) =>
              /\ Len(console) <= Len(console')
              /\ SubSeq(console', 1, Len(console)) = console
              /\ agent_calls' # agent_calls =>
                    /\ Len(agent_calls') = Len(agent_calls) + 1
                    /\ SubSeq(agent_calls', 1, Len(agent_calls)) = agent_calls
                    /\ agent_calls'[Len(agent_calls')].input =
                           [kind |-> "resume",
                            resume |-> [decisions |-> PromptedDecisions']]
                    /\ Len(PromptedDecisions') = Len(requests')]_vars

\* a second interrupt of the turn was approved after text was printed: the
\* third call carries its decision
C27_Witness ==
    /\ Len(agent_calls) = 3
    /\ interrupts = 2
    /\ pc = "streaming"
    /\ agent_calls[3].input.kind = "resume"
    /\ agent_calls[3].input.resume.decisions = <<ApproveDecision>>
    /\ agent_calls[2].input.resume.decisions = <<ApproveDecision, ApproveDecision>>
    /\ agent_calls[1].input.kind = "messages"
    /\ \E k \in 1..Len(console) : console[k].k = "text"

\* C28: when a snapshot is redrawn while the thinking indicator is active
\* and the turn goes on, the indicator is active again after the redraw.
C28_SpinnerResumedAfterRedraw ==
    [][(/\ TodoDelivered
        /\ lastEvent'.todos # current_todos
        /\ spinner_active
        /\ pc' = "streaming")
           => spinner_active' /\ running']_vars

\* C29: in a turn the marker is printed once when non-empty text was
\* delivered and never otherwise, the interrupts approved in between
\* notwithstanding; it stands right before the first non-empty text
\* fragment of the turn, and no text stands before it.
C29_MarkerOnceBeforeFirstText ==
    InFrame =>
        /\ Len(ItemsOfKind(console, "marker")) = IF textIn = <<>> THEN 0 ELSE 1
        /\ has_responded <=> textIn # <<>>
        /\ \A k \in 1..Len(console) :
              console[k] = MarkerItem =>
                  /\ k < Len(console)
                  /\ console[k + 1] = TextItem(textIn[1])
                  /\ \A j \in 1..(k - 1) : console[j].k # "text"

\* text was printed before and after an approved interrupt, under one marker
C29_Witness ==
    /\ cli = "task"
    /\ interrupts = 1
    /\ textIn = <<"a", "a">>
    /\ console = <<MarkerItem, TextItem("a"), TextItem("a")>>
    /\ lastEvent.mode = "messages"
    /\ Len(agent_calls) = 2

\* the tool-call fragments delivered in the turn that carry a name
NamedFrags == SelectSeq(frags, LAMBDA f : f.name # "")

\* C30: the tool-call lines printed in a turn are, in order, one for each
\* fragment delivered with a name, made of that fragment; a fragment
\* without a name prints no line, before or after the name arrived.
C30_LinePerNamedFragment ==
    InFrame =>
        ItemsOfKind(console, "tool_call") =
            [k \in 1..Len(NamedFrags) |->
                ToolCallItem(ToolCallLine(NamedFrags[k].name, NamedFrags[k].args))]

\* arguments alone, then a name, then arguments alone: one line
C30_Witness ==
    /\ InFrame
    /\ frags = <<ToolCallChunk("", ArgsLs), ToolCallChunk("shell", ""),
                 ToolCallChunk("", ArgsLs)>>
    /\ Len(ItemsOfKind(console, "tool_call")) = 1

\* the parsed arguments of the tool call rendered on its own, <<>> when
\* they are no mapping
RenderedItems == json_loads(render.tool_args).items

\* C31: in the line printed for a tool call whose arguments parse as a
\* mapping, every value of at most 150 characters is shown in full and
\* every longer one as its first 150 characters followed by "...".
C31_ValuesCutAt150 ==
    (render.pc = "done" /\ json_loads(render.tool_args).mapping) =>
        render.line =
            "  " \o tool_icons(render.tool_name) \o " " \o render.tool_name \o "("
                 \o JoinWith([i \in 1..Len(RenderedItems) |->
                                 RenderedItems[i].key \o "="
                                 \o truncate_value(RenderedItems[i].val, MAX_ARG_LENGTH)],
                             ", ")
                 \o ")"

\* the step is a user abort: Ctrl+C while a chunk is awaited, at the
\* approval prompt, or while agent.invoke runs
AbortStep ==
    \/ StreamAbort
    \/ InvokeAbort
    \/ /\ Prompt
       /\ promptLog'[Len(promptLog')].interrupt

\* C32: a turn whose streams are finite and whose prompts are answered
\* ends; at no moment has it started more traversals than interrupts
\* handled plus one, and a completed turn ran exactly that many; a user
\* abort ends the turn in the step it is raised in, with no further call of
\* the agent.
C32_TurnTerminates ==
    /\ [](InFrame => /\ Len(StreamCalls) <= interrupts + 1
                     /\ exit = "completed" => Len(StreamCalls) = interrupts + 1)
    /\ [][AbortStep => /\ pc' = "idle"
                       /\ exit' = "interrupted"
                       /\ agent_calls' = agent_calls]_vars
    /\ (pc # "idle") ~> (pc = "idle")

\* C32 witness: a turn of two interrupts, both approved, completed after
\* its third traversal.
C32_Witness ==
    /\ exit = "completed"
    /\ interrupts = 2
    /\ Len(StreamCalls) = 3
    /\ pc = "idle"

\* C33: once execute_task is left, however it is left, the status spinner
\* is stopped; and while it runs, between two events, spinner_active says
\* whether the spinner is started.
C33_SpinnerStoppedWhenLeft ==
    /\ exit # "none" => ~running
    /\ pc # "idle" => (spinner_active = running)

\* C34: no step that starts a turn or is taken inside one writes the
\* token tracker, and neither does the step that ends a turn as rejected
\* or as interrupted by the user, whatever usage the turn captured: the
\* four counters are then what they were when the turn began.
C34_NoCountWithoutCompletion ==
    [][(cli' = "task" \/ (cli = "task" /\ exit' \in {"rejected", "interrupted"}))
         => /\ tracker' = tracker
            /\ adds' = adds]_vars

\* C34 witness: a first turn that printed text and captured usage was
\* aborted, and the tracker still holds no count.
C34_Witness ==
    /\ exit = "interrupted"
    /\ textIn # <<>>
    /\ captured_input_tokens > 0
    /\ captured_output_tokens > 0
    /\ nLines = 1
    /\ tracker = TokenTrackerInit

\* the calls of agent.invoke made in this turn
InvokeCalls == SelectSeq(agent_calls, LAMBDA c : c.op = "invoke")

\* C35: on the rejection path, while agent.invoke runs and after the turn
\* ended as rejected, the turn made one call of agent.invoke, its last
\* call, and that call carries the decisions given at the prompts of the
\* interrupt, one per action request, in the order given, the approvals
\* among them as they were given.
C35_RejectionResumesWithAll ==
    (pc = "invoking" \/ exit = "rejected") =>
        /\ Len(InvokeCalls) = 1
        /\ agent_calls[Len(agent_calls)] =
               InvokeCall([kind |-> "resume",
                           resume |-> [decisions |-> PromptedDecisions]])
        /\ Len(PromptedDecisions) = Len(requests)
        /\ \E k \in 1..Len(PromptedDecisions) : PromptedDecisions[k].type = "reject"

\* C35 witness: the first request was approved, the second rejected, and
\* the turn ended as rejected.
C35_Witness ==
    /\ exit = "rejected"
    /\ Len(requests) = 2
    /\ PromptedDecisions[1].type = "approve"
    /\ PromptedDecisions[2].type = "reject"
    /\ InvokeCalls[1].input.resume.decisions[1].type = "approve"

\* C36: the selection of the raw-mode menu is always 0 or 1, and a key
\* press that is not Enter, a, A, r, R, Ctrl+C or an arrow changes nothing
\* of the menu (selection, characters awaited, prompt open): the keys
\* after it find the menu as the keys before it left it.
C36_OtherKeysIgnored ==
    [][/\ prompter'.selected \in {0, 1}
       /\ (/\ prompter'.keys # prompter.keys
           /\ prompter'.keys[Len(prompter'.keys)] \in OtherKeys)
             => prompter' = [prompter EXCEPT !.keys = prompter'.keys]]_vars

\* the step reads a line that is not handed to the agent
CommandRead ==
    /\ cli = "prompt"
    /\ exit = "none"
    /\ nLines' = nLines + 1
    /\ cli' # "task"

\* C37: no line handled without the agent writes the token tracker; /clear
\* leaves the agent with a fresh checkpointer, and /help, /tokens, an
\* unknown command and every other such line leave the checkpointer as it
\* was; /tokens prints the totals of the tracker as they are.
C37_ClearResetsOnlyConversation ==
    [][CommandRead =>
         /\ tracker' = tracker
         /\ adds' = adds
         /\ checkpointer' = IF console' = <<[k |-> "banner"]>> THEN 0 ELSE checkpointer
         /\ (console' # <<>> /\ console'[1].k = "session_tokens") =>
               console' = display_session(tracker)]_vars

\* C37 witness: after a turn that counted tokens, /clear was read: the
\* checkpointer is fresh and the counts are still there.
C37_Witness ==
    /\ console = <<[k |-> "banner"]>>
    /\ nLines = 2
    /\ checkpointer = 0
    /\ adds # <<>>
    /\ tracker.session_input > 0
====
